---- MODULE Spec2Model ----
(***************************************************************************)
(* The conversation/tool-execution engine of anon-kode: the recursive      *)
(* query loop (src/src/query.ts), the shell-command permission check and  *)
(* the approval store (src/src/permissions.ts), the model-call wrapper     *)
(* (services/claude, in                                                    *)
(* src/src/hooks/useApiKeyVerification.ts) and the message normalisation   *)
(* layer (utils/messages, in src/src/tools.ts).                            *)
(***************************************************************************)
EXTENDS Integers, Sequences, FiniteSets, TLC

\* ------------------------------------------------------------------ bounds
\* Most tool-use blocks the model issues in one conversation, over all its turns.
MaxToolUses == 2

\* Most sub-commands of a shell command, not counting a leading `cd <cwd>`.
MaxSubCommands == 2

\* Most retries withRetry is asked for (options.maxRetries).
MaxRetries == 2

\* The latest attempt of withRetry whose failure is followed in isolation.
MaxAttempt == 9

\* Most messages of a list given to a normalisation function.
MaxMessages == 3

\* Most content blocks of one assistant message.
MaxBlocks == 3

\* Bits of significand the floating-point numbers keep (a double keeps 53).
MantissaBits == 4

\* Most tool-use blocks of one assistant turn when only the scheduling of the
\* batch is followed.
MaxBatchSize == 11

MAX_TOOL_USE_CONCURRENCY_Raised == 10 + 1

\* query.ts:125
MAX_TOOL_USE_CONCURRENCY == 10

\* ------------------------------------------------------- the query loop state
VARIABLES
  aborted,                    \* toolUseContext.abortController.signal.aborted
  pc,                         \* where the query generator is suspended
  depth,                      \* recursion depth of the running query invocation
  messages,                   \* the transcript the running invocation was given
  pending,                    \* model calls in flight (slots 1, 2)
  responses,                  \* slot -> the assistant message that call resolved to
  assistantMessage,           \* the chosen assistant message of this turn
  shouldSkipPermissionCheck,  \* the judge waived the permission check
  toolUseMessages,            \* tool_use blocks of assistantMessage
  concurrent,                 \* the batch runs under runToolsConcurrently
  tu,                         \* per tool-use: position of its runToolUse generator
  toolResults,                \* user messages collected from the batch
  lastYield,                  \* kind of the message query yielded last
  invYields                   \* messages yielded by this invocation (0, 1, many)

\* ------------------------------------------- the shell permission check state
VARIABLES
  parts,                      \* the sub-commands the checked shell command is made of
  allowedTools,               \* projectConfig.allowedTools, the persisted approvals
  ppc,                        \* where bashToolHasPermission is suspended
  prefixResult,               \* what the command-prefix classifier resolved to
  permissionResult            \* how bashToolHasPermission ended

pvars == <<parts, allowedTools, ppc, prefixResult, permissionResult>>

\* ------------------------------------------------ the model-call wrapper state
VARIABLES
  userType,                   \* process.env.USER_TYPE
  maxRetries,                 \* options.maxRetries ?? MAX_RETRIES of withRetry
  cpc,                        \* where queryOpenAI is suspended
  attempt,                    \* withRetry's loop counter
  lastError,                  \* withRetry's lastError
  waits,                      \* the setTimeout delays withRetry has slept, oldest first
  callResult                  \* how queryOpenAI ended

cvars == <<userType, maxRetries, cpc, attempt, lastError, waits, callResult>>

\* ------------------------------------------- the message normalisation state
VARIABLES
  msgIn,                      \* the message list a normalisation function is given
  msgOut,                     \* the list it returned
  mpc                         \* which function returned last

mvars == <<msgIn, msgOut, mpc>>

\* ------------------------------------------------ the approval store state
VARIABLES
  writeGranted,               \* the in-memory write grant for the original directory
  storeCall                   \* the last savePermission / hasPermissionsToUseTool call

svars == <<writeGranted, storeCall>>

\* ------------------------------------------------------- the session options
VARIABLES
  dangerouslySkipPermissions  \* toolUseContext.options.dangerouslySkipPermissions

ovars == <<dangerouslySkipPermissions>>

\* ------------------------------------------------------- the cost tracker
VARIABLES
  costSTATE                   \* cost-tracker's STATE: totalCost, totalAPIDuration

tvars == <<costSTATE>>

\* ------------------------------------------------- the double-press detector
VARIABLES
  now,                        \* Date.now(), in ms since the hook was created
  lastPressRef,               \* lastPressRef.current
  timeoutRef,                 \* timeoutRef.current: a timer handle, or undefined
  timers,                     \* the timers set and neither fired nor cleared
  pendingPress,               \* the value last given to setPending
  presses                     \* the callback each press was answered with, oldest first

dvars == <<now, lastPressRef, timeoutRef, timers, pendingPress, presses>>

\* ------------------------------------------------------- the prompt history
VARIABLES
  history,                    \* projectConfig.history as persisted
  historyCalls                \* the commands addToHistory was called with, oldest first

hvars == <<history, historyCalls>>

\* ------------------------------------------------------- the API key rotation
VARIABLES
  apiKeys,                    \* config.smallModelApiKeys / largeModelApiKeys of the type
  failedApiKeys,              \* getSessionState('failedApiKeys')[type]
  currentApiKeyIndex,         \* getSessionState('currentApiKeyIndex')[type]
  keyCall                     \* the last getActiveApiKey / markApiKeyAsFailed call

kvars == <<apiKeys, failedApiKeys, currentApiKeyIndex, keyCall>>

\* The state outside the query loop and the shell permission check.
xvars == <<cvars, mvars, svars, ovars, tvars, dvars, hvars, kvars>>

qvars == <<aborted, pc, depth, messages, pending, responses, assistantMessage,
           shouldSkipPermissionCheck, toolUseMessages, concurrent, tu,
           toolResults, lastYield, invYields>>

\* ------------------------------------------------------------ message model
\* toolUseContext.options.tools: a read-only tool and a mutating one.
TOOLS == { [name |-> "View", readOnly |-> TRUE],
           [name |-> "Bash", readOnly |-> FALSE] }

\* Tool names the model may put in a tool_use block ("Nope" is in no catalog).
RequestedNames == {"View", "Bash", "Nope"}

\* JavaScript's undefined, as the value of a property an object does not have.
undefined == <<>>

NoMessage == [type |-> "none", isArray |-> FALSE, content |-> <<>>]

TextBlock == [type |-> "text"]

ImageBlock == [type |-> "image"]

ToolUseBlock(id, name) == [type |-> "tool_use", id |-> id, name |-> name]

ToolResultBlock(id, content, isError) ==
  [type |-> "tool_result", content |-> content, is_error |-> isError,
   tool_use_id |-> id]

createUserMessage(content) ==
  [type |-> "user", isArray |-> TRUE, content |-> content]

\* createUserMessage with a string as content (the user's prompt).
UserPrompt == [type |-> "user", isArray |-> FALSE, content |-> <<>>]

createToolResultStopMessage(toolUseID) ==
  ToolResultBlock(toolUseID, "CANCEL_MESSAGE", TRUE)

\* Sequences over S of length 0..n.
SeqsUpTo(S, n) == UNION { [1..k -> S] : k \in 0..n }

\* What a model call may resolve to: a text block followed by tool_use blocks
\* with ids unique to the call, or a synthetic API-error message (text only).
ModelResponses(d, slot, budget) ==
  { [type |-> "assistant", isArray |-> TRUE, isApiErrorMessage |-> FALSE,
     content |-> <<TextBlock>> \o
                 [i \in 1..Len(names) |-> ToolUseBlock(<<d, slot, i>>, names[i])]]
      : names \in SeqsUpTo(RequestedNames, budget) }
  \cup
  { [type |-> "assistant", isArray |-> TRUE, isApiErrorMessage |-> TRUE,
     content |-> <<TextBlock>>] }

\* The ids of the tool_use blocks of a transcript.
IssuedToolUses(ms) ==
  UNION { { ms[k].content[j].id :
              j \in { x \in DOMAIN ms[k].content : ms[k].content[x].type = "tool_use" } }
          : k \in DOMAIN ms }

\* obj[name] in JavaScript: undefined when the object has no such property.
Prop(obj, name) == IF name \in DOMAIN obj THEN obj[name] ELSE undefined

IsToolResultMessage(m) ==
  /\ m.type = "user"
  /\ m.isArray
  /\ Len(m.content) > 0
  /\ m.content[1].type = "tool_result"

Last(s) == s[Len(s)]

normalizeMessagesForAPI_NoMerge(ms) ==
  SelectSeq(ms, LAMBDA m : m.type # "progress")

RECURSIVE normalizeMessagesForAPI_PushMerged(_)
normalizeMessagesForAPI_PushMerged(ms) ==
  IF ms = <<>> THEN <<>>
  ELSE LET result == normalizeMessagesForAPI_PushMerged(SubSeq(ms, 1, Len(ms) - 1))
           message == Last(ms)
       IN  IF message.type = "progress" THEN result
           ELSE IF ~IsToolResultMessage(message) THEN Append(result, message)
           ELSE IF result = <<>> \/ ~IsToolResultMessage(Last(result))
                THEN Append(result, message)
           ELSE Append(result, [Last(result) EXCEPT !.content = @ \o message.content])

\* tools.ts normalizeMessagesForAPI: drop progress messages, merge a tool-result
\* user message into a directly preceding tool-result user message.
RECURSIVE normalizeMessagesForAPI(_)
normalizeMessagesForAPI(ms) ==
  IF ms = <<>> THEN <<>>
  ELSE LET result == normalizeMessagesForAPI(SubSeq(ms, 1, Len(ms) - 1))
           message == Last(ms)
       IN  IF message.type = "progress" THEN result
           ELSE IF message.type = "assistant" THEN Append(result, message)
           ELSE IF ~IsToolResultMessage(message) THEN Append(result, message)
           ELSE IF result = <<>> \/ ~IsToolResultMessage(Last(result))
                THEN Append(result, message)
           ELSE [result EXCEPT ![Len(result)].content = @ \o message.content]

\* ------------------------------------------------------------ pure helpers
\* assistantMessage.message.content.filter(_ => _.type === 'tool_use')
ToolUseBlocks(m) == SelectSeq(m.content, LAMBDA b : b.type = "tool_use")

HasTool(name) == \E t \in TOOLS : t.name = name

FindTool(name) == CHOOSE t \in TOOLS : t.name = name

AllReadOnly_Some(tus) ==
  \E i \in DOMAIN tus : HasTool(tus[i].name) /\ FindTool(tus[i].name).readOnly

\* toolUseMessages.every(msg => tools.find(t => t.name === msg.name)?.isReadOnly())
AllReadOnly(tus) ==
  \A i \in DOMAIN tus : HasTool(tus[i].name) /\ FindTool(tus[i].name).readOnly

\* toolUseMessages.findIndex(tu => tu.id === id): zero-based, -1 when absent.
FindIndex(tus, id) ==
  IF \E i \in DOMAIN tus : tus[i].id = id
  THEN (CHOOSE i \in DOMAIN tus :
          /\ tus[i].id = id
          /\ \A j \in DOMAIN tus : tus[j].id = id => i <= j) - 1
  ELSE -1

\* The comparator of query.ts:304-312. It reads the `id` property of the first
\* content block of each collected message.
CompareToolResults(a, b, tus) ==
  FindIndex(tus, Prop(a.content[1], "id")) - FindIndex(tus, Prop(b.content[1], "id"))

\* Array.prototype.sort is stable: insert each element after the last element
\* that does not compare greater than it.
RECURSIVE SortToolResults(_, _)
SortToolResults(rs, tus) ==
  IF rs = <<>> THEN <<>>
  ELSE LET sorted == SortToolResults(SubSeq(rs, 1, Len(rs) - 1), tus)
           m == Last(rs)
           keep == { k \in 0..Len(sorted) :
                       \A j \in (k + 1)..Len(sorted) :
                         CompareToolResults(sorted[j], m, tus) > 0 }
           k == CHOOSE x \in keep : \A y \in keep : x <= y
       IN  SubSeq(sorted, 1, k) \o <<m>> \o SubSeq(sorted, k + 1, Len(sorted))

InterruptedAfterModel_Never == FALSE

\* query.ts:155/164: the abort check after the model call(s) returned.
InterruptedAfterModel == aborted

InterruptedAfterTools_Never == FALSE

\* query.ts:298: the abort check after the tool batch ended.
InterruptedAfterTools == aborted

NoMoreToolUse_Never(tus) == FALSE

\* query.ts:256: no tool_use block, the turn is complete.
NoMoreToolUse(tus) == Len(tus) = 0

Bump(n) == IF n < 2 THEN n + 1 ELSE n

\* A tool-use of the batch before its runToolUse generator is started: where
\* the generator is, the tool-results it yielded, whether it yielded progress,
\* whether tool.call was invoked and on what permission ("waived" by the
\* judge, "approve" from canUseTool), whether the call threw before a result
\* event, and whether the generator yielded anything after a tool-result.
NewToolUse ==
  [pc |-> "waiting", nres |-> 0, prog |-> FALSE, called |-> FALSE,
   perm |-> "-", threw |-> FALSE, late |-> FALSE]

\* ------------------------------------------------- the permission engine
\* permissions.ts:35-44
SAFE_COMMANDS == {"git status", "git diff", "git log", "git branch",
                  "pwd", "tree", "date", "which"}

\* JavaScript's null, where a string is expected.
null == "<null>"

getCwd == "/cwd"

BashToolName == "Bash"

\* The sub-commands shell commands are built from, and the prefix the classifier
\* may derive for each.
Atoms == {"pwd", "ls -l", "rm x"}

PrefixOf(atom) ==
  CASE atom = "pwd" -> "pwd"
    [] atom = "ls -l" -> "ls"
    [] atom = "rm x" -> "rm"
    [] OTHER -> "cd"

\* The commands checked: one to MaxSubCommands sub-commands joined by `&&`,
\* with or without a leading `cd <cwd>`, and every command of the safe list.
CommandParts ==
  LET bodies == SeqsUpTo(Atoms, MaxSubCommands) \ {<<>>}
  IN  bodies \cup { <<"cd " \o getCwd>> \o b : b \in bodies }
             \cup { <<c>> : c \in SAFE_COMMANDS }

RECURSIVE Join(_)
Join(ps) ==
  IF Len(ps) = 1 THEN ps[1]
  ELSE Join(SubSeq(ps, 1, Len(ps) - 1)) \o " && " \o ps[Len(ps)]

\* The command string under check.
command == Join(parts)

\* utils/commands splitCommand: the command split at its shell control operators.
splitCommand(c) == parts

\* BashTool.renderToolUseMessage({command}): the command as displayed.
renderToolUseMessage(c) == c

\* permissions.ts:338-352
getPermissionKey(toolName, c, prefix) ==
  IF toolName = BashToolName
  THEN IF prefix # null /\ prefix # ""
       THEN BashToolName \o "(" \o prefix \o ":*)"
       ELSE BashToolName \o "(" \o renderToolUseMessage(c) \o ")"
  ELSE toolName

\* allowedTools.includes(key)
Includes(list, key) == \E i \in DOMAIN list : list[i] = key

bashToolCommandHasExactMatchPermission_StoredOnly(c, allowed) ==
  \/ Includes(allowed, getPermissionKey(BashToolName, c, null))
  \/ Includes(allowed, getPermissionKey(BashToolName, c, c))

\* permissions.ts:55-72
bashToolCommandHasExactMatchPermission(c, allowed) ==
  \/ c \in SAFE_COMMANDS
  \/ Includes(allowed, getPermissionKey(BashToolName, c, null))
  \/ Includes(allowed, getPermissionKey(BashToolName, c, c))

\* permissions.ts:84-95
bashToolCommandHasPermission(c, prefix, allowed) ==
  \/ bashToolCommandHasExactMatchPermission(c, allowed)
  \/ Includes(allowed, getPermissionKey(BashToolName, c, prefix))

\* The approval keys a project's persisted list may hold, in the order
\* Array.prototype.sort gives strings (UTF-16 code units).
KnownKeys == << "Bash(ls -l && rm x)", "Bash(ls -l)", "Bash(ls -l:*)",
                "Bash(ls:*)", "Bash(rm:*)" >>

Range(f) == { f[i] : i \in DOMAIN f }

\* The persisted lists: savePermission keeps them sorted and duplicate-free.
AllowedLists == { SelectSeq(KnownKeys, LAMBDA k : k \in S) : S \in SUBSET Range(KnownKeys) }

\* What getCommandSubcommandPrefix may resolve to for a command: it throws, it
\* resolves to null (the lookup failed), or it resolves to a top-level prefix
\* result with a result for some of the sub-commands.
PrefixResults(atom) ==
  [commandPrefix : {PrefixOf(atom), null}, commandInjectionDetected : BOOLEAN]

ClassifierOutcomes(ps) ==
  {[kind |-> "throw"], [kind |-> "null"]}
  \cup
  { [kind |-> "result", commandPrefix |-> top.commandPrefix,
     commandInjectionDetected |-> top.commandInjectionDetected,
     subcommandPrefixes |-> m]
      : top \in PrefixResults(ps[1]),
        m \in UNION { { f \in [D -> UNION { PrefixResults(a) : a \in D }] :
                          \A a \in D : f[a] \in PrefixResults(a) }
                      : D \in SUBSET Range(ps) } }

\* permissions.ts:120-126: a `cd <cwd>` sub-command is not checked.
subCommands == SelectSeq(splitCommand(command), LAMBDA x : x # "cd " \o getCwd)

SubCommandHasPermission_MissingAllowed(subCommand, out, allowed) ==
  IF subCommand \notin DOMAIN out.subcommandPrefixes THEN TRUE
  ELSE LET r == out.subcommandPrefixes[subCommand]
       IN  IF r.commandInjectionDetected THEN FALSE
           ELSE bashToolCommandHasPermission(subCommand, r.commandPrefix, allowed)

\* permissions.ts:175-189, the test every sub-command must pass.
SubCommandHasPermission(subCommand, out, allowed) ==
  IF subCommand \notin DOMAIN out.subcommandPrefixes THEN FALSE
  ELSE LET r == out.subcommandPrefixes[subCommand]
       IN  IF r.commandInjectionDetected THEN FALSE
           ELSE bashToolCommandHasPermission(subCommand, r.commandPrefix, allowed)

BashDecision_NoInjectionCheck(c, subs, out, allowed) ==
  IF out.kind = "null" THEN "deny"
  ELSE IF Len(subs) < 2
    THEN IF bashToolCommandHasPermission(c, out.commandPrefix, allowed)
         THEN "approve" ELSE "deny"
  ELSE IF \A i \in DOMAIN subs : SubCommandHasPermission(subs[i], out, allowed)
    THEN "approve" ELSE "deny"

\* permissions.ts:135-197: the decision once the classifier has resolved to out
\* (null or a result) and the signal is not aborted.
BashDecision(c, subs, out, allowed) ==
  IF out.kind = "null" THEN "deny"
  ELSE IF out.commandInjectionDetected
    THEN IF bashToolCommandHasExactMatchPermission(c, allowed)
         THEN "approve" ELSE "deny"
  ELSE IF Len(subs) < 2
    THEN IF bashToolCommandHasPermission(c, out.commandPrefix, allowed)
         THEN "approve" ELSE "deny"
  ELSE IF \A i \in DOMAIN subs : SubCommandHasPermission(subs[i], out, allowed)
    THEN "approve" ELSE "deny"

hasPermissionsToUseBashTool_AnyBashKey(skip, signalAborted, allowed) ==
  IF skip THEN "approve"
  ELSE IF signalAborted THEN "AbortError"
  ELSE IF allowed # <<>> THEN "approve"
  ELSE "bashToolHasPermission"

\* permissions.ts:224-257 for the shell tool, whose needsPermissions answers
\* true: the call ends at once, or goes on in bashToolHasPermission.
hasPermissionsToUseBashTool(skip, signalAborted, allowed) ==
  IF skip THEN "approve"
  ELSE IF signalAborted THEN "AbortError"
  ELSE IF Includes(allowed, BashToolName) THEN "approve"
  ELSE "bashToolHasPermission"

\* The lists a project config may hold for the shell tool: the keys
\* savePermission writes, with or without the bare tool name, which sorts first.
ShellLists == AllowedLists \cup { <<BashToolName>> \o list : list \in AllowedLists }

\* ------------------------------------------------- floating-point arithmetic
\* A number is held as a count of units of 2^-(MantissaBits + 4); it is rounded
\* to MantissaBits significant bits, ties to even, after every operation, as
\* binary floating point does.
FloatOne == 2 ^ (MantissaBits + 4)

\* The spacing of the representable numbers around v.
RECURSIVE Quantum(_)
Quantum(v) == IF v < 2 ^ MantissaBits THEN 1 ELSE 2 * Quantum(v \div 2)

\* a / d rounded to the nearest integer, ties to even.
RoundHalfEven(a, d) ==
  LET fl == a \div d
      rem == a % d
  IN  IF 2 * rem > d \/ (2 * rem = d /\ fl % 2 = 1) THEN fl + 1 ELSE fl

\* The representable number nearest to a / b.
FloatRound(a, b) ==
  LET q == Quantum(a \div b) IN q * RoundHalfEven(a, b * q)

FloatDiv(x, n) == FloatRound(x, n)

FloatAdd(x, y) == FloatRound(x + y, 1)

\* costUSD of the assistant messages: nothing (a synthetic message), 1.0, and
\* a cost that fills the significand.
Costs == { 0, FloatOne, (FloatOne \div (2 ^ (MantissaBits - 1))) * (2 ^ MantissaBits - 3) }

\* -------------------------------------------------- message normalisation layer
ToolUseIds == { <<1>>, <<2>> }

\* The blocks of an assistant message of n blocks: text, then tool_use blocks.
AssistantBlocks(n) ==
  [i \in 1..n |-> IF i = 1 THEN TextBlock ELSE ToolUseBlock(<<i - 1>>, "View")]

AssistantOf(content, cost) ==
  [type |-> "assistant", isArray |-> TRUE, content |-> content,
   costUSD |-> cost, uuid |-> <<0, 0>>]

UserOf(isArray, content) ==
  [type |-> "user", isArray |-> isArray, content |-> content, uuid |-> <<0, 0>>]

\* tools.ts:287-303
createProgressMessage(toolUseID) ==
  [type |-> "progress", toolUseID |-> toolUseID, uuid |-> <<0, 0>>]

\* The messages a list is made of: a user prompt, a prompt with a pasted image
\* (tools.ts:502-517), tool results, progress messages, single-block assistant
\* messages (text, tool use) and assistant messages of several blocks as the
\* model call returns them.
MessageAlphabet ==
  { UserOf(FALSE, <<>>), UserOf(TRUE, <<ImageBlock, TextBlock>>),
    AssistantOf(<<TextBlock>>, FloatOne) }
  \cup { UserOf(TRUE, <<ToolResultBlock(id, "ok", FALSE)>>) : id \in ToolUseIds }
  \cup { UserOf(TRUE, <<ToolResultBlock(<<1>>, "failed", TRUE)>>) }
  \cup { createProgressMessage(id) : id \in ToolUseIds }
  \cup { AssistantOf(<<ToolUseBlock(id, "View")>>, FloatOne) : id \in ToolUseIds }
  \cup { AssistantOf(AssistantBlocks(n), c) : n \in 2..MaxBlocks, c \in Costs }

\* Concatenation of a sequence of sequences.
RECURSIVE Flatten(_)
Flatten(ss) == IF ss = <<>> THEN <<>> ELSE Head(ss) \o Flatten(Tail(ss))

normalizeMessage_CostKept(message) ==
  IF message.type = "progress" THEN <<message>>
  ELSE IF ~message.isArray THEN <<message>>
  ELSE [i \in 1..Len(message.content) |->
          IF message.type = "assistant"
          THEN [message EXCEPT !.content = <<message.content[i]>>,
                               !.uuid = <<message.uuid[1], i>>]
          ELSE message]

\* tools.ts:828-865: one message per content block. A piece of an assistant
\* message gets a new uuid and an equal share of the cost; a user message is
\* returned as it is, once per block.
normalizeMessage(message) ==
  IF message.type = "progress" THEN <<message>>
  ELSE IF ~message.isArray THEN <<message>>
  ELSE [i \in 1..Len(message.content) |->
          IF message.type = "assistant"
          THEN [message EXCEPT !.content = <<message.content[i]>>,
                               !.costUSD = FloatDiv(message.costUSD, Len(message.content)),
                               !.uuid = <<message.uuid[1], i>>]
          ELSE message]

normalizeMessages(ms) == Flatten([k \in DOMAIN ms |-> normalizeMessage(ms[k])])

\* tools.ts:881-890
isToolUseRequestMessage(message) ==
  /\ message.type = "assistant"
  /\ "costUSD" \in DOMAIN message
  /\ \E j \in DOMAIN message.content : message.content[j].type = "tool_use"

\* Array.prototype.indexOf, counted from 1; 0 when absent.
IndexOf(seq, x) ==
  IF \E i \in DOMAIN seq : seq[i] = x
  THEN CHOOSE i \in DOMAIN seq : seq[i] = x /\ \A j \in 1..(i - 1) : seq[j] # x
  ELSE 0

\* ms.splice(at, 0, message), at counted from 0.
Splice(seq, at, message) ==
  SubSeq(seq, 1, at) \o <<message>> \o SubSeq(seq, at + 1, Len(seq))

\* ms.find(_ => _.type === 'progress' && _.toolUseID === toolUseID): its index,
\* 0 when there is none.
FindProgress(seq, toolUseID) ==
  LET hits == { i \in DOMAIN seq : seq[i].type = "progress" /\ seq[i].toolUseID = toolUseID }
  IN  IF hits = {} THEN 0 ELSE CHOOSE i \in hits : \A j \in hits : i <= j

\* toolUseMessages.find(_ => _.message.content[0]?.id === toolUseID)
FindToolUse(seq, toolUseID) ==
  LET hits == { i \in DOMAIN seq : /\ Len(seq[i].content) > 0
                                   /\ Prop(seq[i].content[1], "id") = toolUseID }
  IN  IF hits = {} THEN 0 ELSE CHOOSE i \in hits : \A j \in hits : i <= j

ReorderStep_Push(st, message) ==
  [ms |-> Append(st.ms, message),
   toolUseMessages |-> IF isToolUseRequestMessage(message)
                       THEN Append(st.toolUseMessages, message)
                       ELSE st.toolUseMessages]

ReorderStep_ProgressAdded(st, message) ==
  LET tus == IF isToolUseRequestMessage(message)
             THEN Append(st.toolUseMessages, message) ELSE st.toolUseMessages
      ms == st.ms
      after(anchor) == [ms |-> Splice(ms, IndexOf(ms, anchor), message),
                        toolUseMessages |-> tus]
      pushed == [ms |-> Append(ms, message), toolUseMessages |-> tus]
      same == [ms |-> ms, toolUseMessages |-> tus]
  IN  IF message.type = "progress"
      THEN LET t == FindToolUse(tus, message.toolUseID)
           IN  IF t # 0 THEN after(tus[t]) ELSE pushed
      ELSE IF IsToolResultMessage(message)
      THEN LET id == message.content[1].tool_use_id
               p == FindProgress(ms, id)
               t == FindToolUse(tus, id)
           IN  IF p # 0 THEN after(ms[p])
               ELSE IF t # 0 THEN after(tus[t])
               ELSE same
      ELSE pushed

\* tools.ts:905-963, one iteration of the loop: st.ms and st.toolUseMessages
\* after `message`.
ReorderStep(st, message) ==
  LET tus == IF isToolUseRequestMessage(message)
             THEN Append(st.toolUseMessages, message) ELSE st.toolUseMessages
      ms == st.ms
      after(anchor) == [ms |-> Splice(ms, IndexOf(ms, anchor), message),
                        toolUseMessages |-> tus]
      pushed == [ms |-> Append(ms, message), toolUseMessages |-> tus]
      same == [ms |-> ms, toolUseMessages |-> tus]
  IN  IF message.type = "progress"
      THEN LET p == FindProgress(ms, message.toolUseID)
               t == FindToolUse(tus, message.toolUseID)
           IN  IF p # 0 THEN [ms |-> [ms EXCEPT ![p] = message], toolUseMessages |-> tus]
               ELSE IF t # 0 THEN after(tus[t])
               ELSE pushed
      ELSE IF IsToolResultMessage(message)
      THEN LET id == message.content[1].tool_use_id
               p == FindProgress(ms, id)
               t == FindToolUse(tus, id)
           IN  IF p # 0 THEN after(ms[p])
               ELSE IF t # 0 THEN after(tus[t])
               ELSE same
      ELSE pushed

\* tools.ts:900-967
RECURSIVE ReorderFrom(_, _)
ReorderFrom(st, rest) ==
  IF rest = <<>> THEN st.ms
  ELSE ReorderFrom(ReorderStep(st, Head(rest)), Tail(rest))

reorderMessages(ms) == ReorderFrom([ms |-> <<>>, toolUseMessages |-> <<>>], ms)

\* _.message.content[0]?.type === 'tool_use' on an assistant message
IsToolUseMessage(m) ==
  /\ m.type = "assistant"
  /\ m.isArray
  /\ Len(m.content) > 0
  /\ m.content[1].type = "tool_use"

\* tools.ts:977-991: from tool-use id to is_error, for every tool-result
\* message; Object.fromEntries keeps the last entry of a key.
getToolResultIDs(ms) ==
  LET places(id) == { k \in DOMAIN ms : /\ IsToolResultMessage(ms[k])
                                        /\ ms[k].content[1].tool_use_id = id }
      ids == { ms[k].content[1].tool_use_id :
                 k \in { j \in DOMAIN ms : IsToolResultMessage(ms[j]) } }
  IN  [id \in ids |->
         ms[CHOOSE k \in places(id) : \A j \in places(id) : j <= k].content[1].is_error]

\* new Set(ids): the ids in the order of their first occurrence.
RECURSIVE SetOf(_)
SetOf(ids) ==
  IF ids = <<>> THEN <<>>
  ELSE LET front == SetOf(SubSeq(ids, 1, Len(ids) - 1))
       IN  IF \E i \in DOMAIN front : front[i] = Last(ids) THEN front
           ELSE Append(front, Last(ids))

\* .map(_ => _.message.content[0].id)
FirstBlockIds(ms) == [k \in DOMAIN ms |-> ms[k].content[1].id]

\* tools.ts:999-1018
getUnresolvedToolUseIDs(ms) ==
  LET toolResultIDs == getToolResultIDs(ms)
  IN  SetOf(FirstBlockIds(SelectSeq(ms, LAMBDA m :
              IsToolUseMessage(m) /\ m.content[1].id \notin DOMAIN toolResultIDs)))

getInProgressToolUseIDs_AnyWithProgress(ms) ==
  LET unresolvedToolUseIDs == getUnresolvedToolUseIDs(ms)
      toolUseIDsThatHaveProgressMessages ==
        { ms[k].toolUseID : k \in { j \in DOMAIN ms : ms[j].type = "progress" } }
  IN  SetOf(FirstBlockIds(SelectSeq(ms, LAMBDA m :
        /\ IsToolUseMessage(m)
        /\ \/ (unresolvedToolUseIDs # <<>> /\ m.content[1].id = unresolvedToolUseIDs[1])
           \/ m.content[1].id \in toolUseIDsThatHaveProgressMessages)))

\* tools.ts:1035-1067
getInProgressToolUseIDs(ms) ==
  LET unresolvedToolUseIDs == getUnresolvedToolUseIDs(ms)
      toolUseIDsThatHaveProgressMessages ==
        { ms[k].toolUseID : k \in { j \in DOMAIN ms : ms[j].type = "progress" } }
  IN  SetOf(FirstBlockIds(SelectSeq(ms, LAMBDA m :
        /\ m.type = "assistant"
        /\ Len(m.content) > 0
        /\ m.content[1].type = "tool_use"
        /\ \/ (unresolvedToolUseIDs # <<>> /\ m.content[1].id = unresolvedToolUseIDs[1])
           \/ /\ m.content[1].id \in toolUseIDsThatHaveProgressMessages
              /\ \E i \in DOMAIN unresolvedToolUseIDs :
                    unresolvedToolUseIDs[i] = m.content[1].id)))

\* tools.ts:1076-1088
getErroredToolUseMessages(ms) ==
  LET toolResultIDs == getToolResultIDs(ms)
  IN  SelectSeq(ms, LAMBDA m :
        /\ IsToolUseMessage(m)
        /\ m.content[1].id \in DOMAIN toolResultIDs
        /\ toolResultIDs[m.content[1].id])

MsgIdle ==
  /\ msgIn = <<>>
  /\ msgOut = <<>>
  /\ mpc = "idle"

\* ------------------------------------------------------ the model-call wrapper
\* A header value: absent, or a text held as its characters.
NoHeader == [set |-> FALSE, text |-> <<>>]

Header(chars) == [set |-> TRUE, text |-> chars]

\* The retry-after headers the failing responses carry.
RetryAfterHeaders ==
  { NoHeader, Header(<<>>), Header(<<"0">>), Header(<<"2">>), Header(<<"3", "3">>),
    Header(<<"1", "s">>), Header(<<"s", "o", "o", "n">>) }

Digits == <<"0", "1", "2", "3", "4", "5", "6", "7", "8", "9">>

IsDigit(c) == \E d \in DOMAIN Digits : Digits[d] = c

DigitValue(c) == (CHOOSE d \in DOMAIN Digits : Digits[d] = c) - 1

NaN == [nan |-> TRUE, value |-> 0]

\* Length of the longest prefix of digits.
RECURSIVE DigitPrefix(_)
DigitPrefix(chars) ==
  IF chars = <<>> \/ ~IsDigit(Head(chars)) THEN 0
  ELSE 1 + DigitPrefix(Tail(chars))

RECURSIVE DecimalValue(_)
DecimalValue(chars) ==
  IF chars = <<>> THEN 0
  ELSE 10 * DecimalValue(SubSeq(chars, 1, Len(chars) - 1))
       + DigitValue(chars[Len(chars)])

\* parseInt(text, 10): leading blanks, an optional sign, then the longest run
\* of digits; NaN when there is no digit.
RECURSIVE parseInt(_)
parseInt(chars) ==
  IF chars # <<>> /\ Head(chars) = " " THEN parseInt(Tail(chars))
  ELSE LET signed == chars # <<>> /\ Head(chars) \in {"+", "-"}
           body   == IF signed THEN Tail(chars) ELSE chars
           n      == DigitPrefix(body)
           v      == DecimalValue(SubSeq(body, 1, n))
       IN  IF n = 0 THEN NaN
           ELSE [nan |-> FALSE,
                 value |-> IF signed /\ Head(chars) = "-" THEN 0 - v ELSE v]

\* useApiKeyVerification.ts:189
BASE_DELAY_MS == 500

\* useApiKeyVerification.ts:217, the ceiling of the computed backoff.
MAX_DELAY_MS == 32000

Min(a, b) == IF a < b THEN a ELSE b

getRetryDelay_Uncapped(n, retryAfterHeader) ==
  LET seconds == parseInt(retryAfterHeader.text)
  IN  IF retryAfterHeader.set /\ retryAfterHeader.text # <<>> /\ ~seconds.nan
      THEN seconds.value * 1000
      ELSE BASE_DELAY_MS * (2 ^ (n - 1))

\* useApiKeyVerification.ts:207-218
getRetryDelay(n, retryAfterHeader) ==
  LET seconds == parseInt(retryAfterHeader.text)
  IN  IF retryAfterHeader.set /\ retryAfterHeader.text # <<>> /\ ~seconds.nan
      THEN seconds.value * 1000
      ELSE Min(BASE_DELAY_MS * (2 ^ (n - 1)), MAX_DELAY_MS)

\* The failures an attempt can end in. An APIError carries a status (0 when it
\* has none), the x-should-retry and retry-after headers, and may be an
\* APIConnectionError or an overloaded_error; `cause` is what its message holds.
APIErrors ==
  { e \in [api : {TRUE}, connection : BOOLEAN, overloaded : BOOLEAN,
           xShouldRetry : {"none", "true", "false"},
           status : {0, 400, 408, 409, 429, 500},
           retryAfter : RetryAfterHeaders, cause : {"other"}] :
      e.connection => e.status = 0 }

OtherFailure(cause) ==
  [api |-> FALSE, connection |-> FALSE, overloaded |-> FALSE,
   xShouldRetry |-> "none", status |-> 0, retryAfter |-> NoHeader,
   cause |-> cause]

\* Error objects that are no APIError, told apart by their message, and a
\* thrown value that is no Error at all.
OtherFailures ==
  { OtherFailure(c) : c \in {"prompt is too long", "Your credit balance is too low",
                             "x-api-key", "other", "not an Error"} }

Failures == APIErrors \cup OtherFailures

\* withRetry's lastError before any attempt failed.
NoError == OtherFailure("none")

shouldRetry_StatusBeforeHeader(error) ==
  IF error.overloaded THEN userType = "SWE_BENCH"
  ELSE IF error.connection THEN TRUE
  ELSE IF error.status \in {408, 409, 429} \/ error.status >= 500 THEN TRUE
  ELSE error.xShouldRetry = "true"

\* useApiKeyVerification.ts:227-258
shouldRetry(error) ==
  IF error.overloaded THEN userType = "SWE_BENCH"
  ELSE IF error.xShouldRetry = "true" THEN TRUE
  ELSE IF error.xShouldRetry = "false" THEN FALSE
  ELSE IF error.connection THEN TRUE
  ELSE IF error.status = 0 THEN FALSE
  ELSE IF error.status \in {408, 409, 429} THEN TRUE
  ELSE error.status >= 500

GivesUp_OneEarly(n, error) == n >= maxRetries \/ ~error.api \/ ~shouldRetry(error)

\* useApiKeyVerification.ts:286-292: withRetry rethrows instead of retrying.
GivesUp(n, error) == n > maxRetries \/ ~error.api \/ ~shouldRetry(error)

\* useApiKeyVerification.ts:981-1013, the text of the synthetic message.
ErrorText(error) ==
  IF error.cause = "prompt is too long" THEN "Prompt is too long"
  ELSE IF error.cause = "Your credit balance is too low"
    THEN "Credit balance is too low"
  ELSE IF error.cause = "x-api-key" THEN "Invalid API key"
  ELSE IF error.cause = "not an Error" THEN "API Error"
  ELSE "API Error: " \o error.cause

\* useApiKeyVerification.ts:981-1013 with tools.ts:228-241
getAssistantMessageFromError(error) ==
  [kind |-> "message", type |-> "assistant", isApiErrorMessage |-> TRUE,
   text |-> ErrorText(error)]

\* useApiKeyVerification.ts:1178-1195, the message of a successful call.
ResponseMessage(costUSD) ==
  [kind |-> "message", type |-> "assistant", isApiErrorMessage |-> FALSE,
   text |-> "response", costUSD |-> costUSD]

\* Date.now() - startIncludingRetries of a call, in ms.
Durations == {0, 7}

addToTotalCost_Overwrites(cost, duration) ==
  [totalCost |-> cost, totalAPIDuration |-> duration]

\* cost-tracker.ts:38-41, in floating point for the cost.
addToTotalCost(cost, duration) ==
  [totalCost |-> FloatAdd(costSTATE.totalCost, cost),
   totalAPIDuration |-> costSTATE.totalAPIDuration + duration]

Thrown(stage) == [kind |-> "thrown", stage |-> stage]

NoCallResult == [kind |-> "none"]

CallIdle ==
  /\ userType = "external"
  /\ maxRetries = 0
  /\ cpc = "idle"
  /\ attempt = 0
  /\ lastError = NoError
  /\ waits = <<>>
  /\ callResult = NoCallResult

NoStoreCall == [op |-> "none"]

StoreIdle ==
  /\ writeGranted = FALSE
  /\ storeCall = NoStoreCall

OptionsIdle == dangerouslySkipPermissions = FALSE

\* cost-tracker.ts:22-30
CostTrackerIdle == costSTATE = [totalCost |-> 0, totalAPIDuration |-> 0]

\* A timer handle that is not set.
NoTimer == <<>>

\* useDoublePress.ts:29-30: the refs of a hook no press has reached.
DoublePressIdle ==
  /\ now = 0
  /\ lastPressRef = 0
  /\ timeoutRef = NoTimer
  /\ timers = {}
  /\ pendingPress = FALSE
  /\ presses = <<>>

HistoryIdle ==
  /\ history = <<>>
  /\ historyCalls = <<>>

NoKeyCall == [op |-> "none", roundRobin |-> FALSE, result |-> [kind |-> "undefined", key |-> 0]]

KeysIdle ==
  /\ apiKeys = <<>>
  /\ failedApiKeys = <<>>
  /\ currentApiKeyIndex = 0
  /\ keyCall = NoKeyCall

\* The parts of the program added last, at rest.
CostIdle == CostTrackerIdle /\ DoublePressIdle /\ HistoryIdle /\ KeysIdle

XIdle == CallIdle /\ MsgIdle /\ StoreIdle /\ CostIdle /\ OptionsIdle

NoOutcome == [kind |-> "none"]

PermIdle ==
  /\ parts = <<"pwd">>
  /\ allowedTools = <<>>
  /\ ppc = "idle"
  /\ prefixResult = NoOutcome
  /\ permissionResult = "none"

QueryIdle ==
  /\ pc = "start"
  /\ depth = 0
  /\ messages = <<UserPrompt>>
  /\ pending = {}
  /\ responses = <<NoMessage, NoMessage>>
  /\ assistantMessage = NoMessage
  /\ shouldSkipPermissionCheck = FALSE
  /\ toolUseMessages = <<>>
  /\ concurrent = FALSE
  /\ tu = <<>>
  /\ toolResults = <<>>
  /\ lastYield = "none"
  /\ invYields = 0

\* bashToolHasPermission is called on a command, with a persisted list.
InitPerm ==
  /\ aborted = FALSE
  /\ QueryIdle
  /\ parts \in CommandParts
  /\ allowedTools \in AllowedLists
  /\ ppc = "start"
  /\ prefixResult = NoOutcome
  /\ permissionResult = "none"
  /\ XIdle

PermFrame == UNCHANGED <<pc, depth, messages, pending, responses, assistantMessage,
                         shouldSkipPermissionCheck, toolUseMessages, concurrent,
                         tu, toolResults, lastYield, invYields, xvars>>

\* permissions.ts:115-130: an exact match is approved at once; otherwise the
\* classifier is called and awaited.
BashCheckStart ==
  /\ ppc = "start"
  /\ IF bashToolCommandHasExactMatchPermission(command, allowedTools)
     THEN ppc' = "done" /\ permissionResult' = "approve"
     ELSE ppc' = "classifying" /\ permissionResult' = "none"
  /\ UNCHANGED <<aborted, parts, allowedTools, prefixResult>>
  /\ PermFrame

\* The signal is set while the classifier call is awaited.
AbortDuringCheck ==
  /\ ppc = "classifying"
  /\ ~aborted
  /\ aborted' = TRUE
  /\ UNCHANGED <<pvars, xvars>>
  /\ PermFrame

\* The classifier's answers for the command under check: any outcome, or, when
\* the check started from a command with a known verdict, the outcomes with
\* that verdict.
ClassifierAnswers ==
  { out \in ClassifierOutcomes(parts) :
      prefixResult.kind = "unasked" =>
        ((out.kind = "result" /\ out.commandInjectionDetected)
           = prefixResult.commandInjectionDetected) }

ClassifierReturns_AbortUnchecked ==
  /\ ppc = "classifying"
  /\ \E out \in ClassifierAnswers :
       /\ prefixResult' = out
       /\ permissionResult' =
            IF out.kind = "throw" THEN "thrown"
            ELSE BashDecision(command, subCommands, out, allowedTools)
  /\ ppc' = "done"
  /\ UNCHANGED <<aborted, parts, allowedTools>>
  /\ PermFrame

\* permissions.ts:127-197: the classifier call settles. A throw propagates out
\* of bashToolHasPermission; an aborted signal raises AbortError.
ClassifierReturns ==
  /\ ppc = "classifying"
  /\ \E out \in ClassifierAnswers :
       /\ prefixResult' = out
       /\ permissionResult' =
            IF out.kind = "throw" THEN "thrown"
            ELSE IF aborted THEN "AbortError"
            ELSE BashDecision(command, subCommands, out, allowedTools)
  /\ ppc' = "done"
  /\ UNCHANGED <<aborted, parts, allowedTools>>
  /\ PermFrame

NextPerm ==
  \/ BashCheckStart
  \/ AbortDuringCheck
  \/ ClassifierReturns

\* hasPermissionsToUseTool is called for the shell tool on a command the
\* classifier flags as injection, or does not flag, with a loaded list.
InitShell ==
  /\ aborted \in BOOLEAN
  /\ QueryIdle
  /\ parts \in CommandParts
  /\ allowedTools \in ShellLists
  /\ ppc = "entry"
  /\ prefixResult \in [kind : {"unasked"}, commandInjectionDetected : BOOLEAN]
  /\ permissionResult = "none"
  /\ CallIdle /\ MsgIdle /\ StoreIdle /\ CostIdle
  /\ dangerouslySkipPermissions \in BOOLEAN

\* permissions.ts:224-257: the statements of hasPermissionsToUseTool before
\* bashToolHasPermission is called; they have no await.
ShellCheckStart ==
  /\ ppc = "entry"
  /\ LET r == hasPermissionsToUseBashTool(dangerouslySkipPermissions, aborted,
                                          allowedTools)
     IN  IF r = "bashToolHasPermission"
         THEN ppc' = "start" /\ permissionResult' = "none"
         ELSE ppc' = "done" /\ permissionResult' = r
  /\ UNCHANGED <<aborted, parts, allowedTools, prefixResult>>
  /\ PermFrame

NextShell ==
  \/ ShellCheckStart
  \/ NextPerm

\* ------------------------------------------------------------ query actions
Init ==
  /\ aborted = FALSE
  /\ QueryIdle
  /\ PermIdle
  /\ XIdle

\* A session started with --dangerously-skip-permissions.
InitSkipping ==
  /\ aborted = FALSE
  /\ QueryIdle
  /\ PermIdle
  /\ CallIdle
  /\ MsgIdle
  /\ StoreIdle
  /\ CostIdle
  /\ dangerouslySkipPermissions = TRUE

\* The user presses escape: the signal is set and never cleared.
Abort ==
  /\ UNCHANGED <<pvars, xvars>>
  /\ ~aborted
  /\ pc # "done"
  /\ aborted' = TRUE
  /\ UNCHANGED <<pc, depth, messages, pending, responses, assistantMessage,
                 shouldSkipPermissionCheck, toolUseMessages, concurrent, tu,
                 toolResults, lastYield, invYields>>

\* Entry of a query invocation on transcript ms at depth d, up to its first
\* suspension (query.ts:216-233, 149-163). With no judge callback (or outside
\* the 'ant' build) the model call is issued at once; otherwise the generator
\* first awaits shouldUseBinaryFeedback().
QueryEntry(ms, d) ==
  /\ messages' = ms
  /\ depth' = d
  /\ responses' = <<NoMessage, NoMessage>>
  /\ assistantMessage' = NoMessage
  /\ shouldSkipPermissionCheck' = FALSE
  /\ toolUseMessages' = <<>>
  /\ concurrent' = FALSE
  /\ tu' = <<>>
  /\ toolResults' = <<>>
  /\ invYields' = 0
  /\ \E judged \in BOOLEAN :
       IF judged THEN pc' = "gate" /\ pending' = {}
                 ELSE pc' = "model" /\ pending' = {1}

QueryStart ==
  /\ UNCHANGED <<pvars, xvars>>
  /\ pc = "start"
  /\ QueryEntry(messages, 0)
  /\ UNCHANGED <<aborted, lastYield>>

\* shouldUseBinaryFeedback() resolves (query.ts:152-163): one call, or two at once.
GateReturns ==
  /\ UNCHANGED <<pvars, xvars>>
  /\ pc = "gate"
  /\ pc' = "model"
  /\ \E use \in BOOLEAN : pending' = IF use THEN {1, 2} ELSE {1}
  /\ UNCHANGED <<aborted, depth, messages, responses, assistantMessage,
                 shouldSkipPermissionCheck, toolUseMessages, concurrent, tu,
                 toolResults, lastYield, invYields>>

\* One model call in flight resolves to an assistant message (querySonnet).
ModelReturns ==
  /\ UNCHANGED <<pvars, xvars>>
  /\ pc = "model"
  /\ \E slot \in pending :
       /\ pending' = pending \ {slot}
       /\ \E r \in ModelResponses(depth, slot,
                                    MaxToolUses - Cardinality(IssuedToolUses(messages))) :
            responses' = [responses EXCEPT ![slot] = r]
  /\ UNCHANGED <<aborted, pc, depth, messages, assistantMessage,
                 shouldSkipPermissionCheck, toolUseMessages, concurrent, tu,
                 toolResults, lastYield, invYields>>

\* query.ts:239-241: result.message === null.
YieldInterrupt ==
  /\ pc' = "done"
  /\ lastYield' = "interrupt"
  /\ invYields' = Bump(invYields)
  /\ UNCHANGED <<aborted, depth, messages, pending, responses, assistantMessage,
                 shouldSkipPermissionCheck, toolUseMessages, concurrent, tu,
                 toolResults>>

\* query.ts:244-296: yield the chosen message, extract its tool_use blocks,
\* stop when there are none, otherwise choose the strategy and start the batch.
TurnChosen(m, skip) ==
  LET tus == ToolUseBlocks(m) IN
  /\ assistantMessage' = m
  /\ shouldSkipPermissionCheck' = skip
  /\ lastYield' = "assistant"
  /\ invYields' = Bump(invYields)
  /\ IF NoMoreToolUse(tus)
     THEN /\ pc' = "done"
          /\ UNCHANGED <<toolUseMessages, concurrent, tu>>
     ELSE /\ pc' = "tools"
          /\ toolUseMessages' = tus
          /\ concurrent' = AllReadOnly(tus)
          /\ tu' = [i \in 1..Len(tus) |-> NewToolUse]
  /\ responses' = <<NoMessage, NoMessage>>
  /\ UNCHANGED <<aborted, depth, messages, pending, toolResults>>

\* The await of the model call(s) resumes (query.ts:154-178, 233-258).
ResolveTurn ==
  /\ UNCHANGED <<pvars, xvars>>
  /\ pc = "model"
  /\ pending = {}
  /\ LET compared == responses[2] # NoMessage
         m1 == responses[1]
         m2 == responses[2]
     IN  IF InterruptedAfterModel THEN YieldInterrupt
         ELSE IF ~compared THEN TurnChosen(m1, FALSE)
         ELSE IF m2.isApiErrorMessage THEN TurnChosen(m1, FALSE)
         ELSE IF m1.isApiErrorMessage THEN TurnChosen(m2, FALSE)
         ELSE \E valid \in BOOLEAN :   \* messagePairValidForBinaryFeedback
                IF ~valid THEN TurnChosen(m1, FALSE)
                ELSE /\ pc' = "judge"
                     /\ UNCHANGED <<aborted, depth, messages, pending, responses,
                                    assistantMessage, shouldSkipPermissionCheck,
                                    toolUseMessages, concurrent, tu, toolResults,
                                    lastYield, invYields>>

\* getBinaryFeedbackResponse(m1, m2) resolves (query.ts:178, 94-96).
JudgeReturns ==
  /\ UNCHANGED <<pvars, xvars>>
  /\ pc = "judge"
  /\ \/ YieldInterrupt                                  \* message: null
     \/ \E slot \in {1, 2}, skip \in BOOLEAN : TurnChosen(responses[slot], skip)

\* ------------------------------------------------------------ the tool batch
Active(i) == tu[i].pc \in {"validating", "permission", "calling", "closing"}

\* Which runToolUse generator may take its first step. runToolsSerially
\* (query.ts:384-393) starts a tool-use when the one before it has returned;
\* all(generators, MAX_TOOL_USE_CONCURRENCY) keeps at most that many started
\* and unfinished, taking them in request order.
MayStart(i) ==
  /\ tu[i].pc = "waiting"
  /\ \A j \in 1..(i - 1) : tu[j].pc # "waiting"
  /\ IF concurrent
     THEN Cardinality({j \in DOMAIN tu : Active(j)}) < MAX_TOOL_USE_CONCURRENCY
     ELSE \A j \in 1..(i - 1) : tu[j].pc = "done"

\* The generator of tool-use i, whose record is now rec, yields a tool-result
\* user message and goes on to `at`; query collects the message
\* (query.ts:276-280, 290-294).
YieldToolResultAt(i, rec, at, content, isError) ==
  /\ tu' = [tu EXCEPT ![i] = [rec EXCEPT !.pc = at, !.nres = @ + 1,
                                         !.late = (rec.late \/ rec.nres > 0)]]
  /\ toolResults' = Append(toolResults,
       createUserMessage(<<ToolResultBlock(toolUseMessages[i].id, content, isError)>>))
  /\ lastYield' = "result"
  /\ invYields' = Bump(invYields)

\* The same, and the generator returns.
YieldToolResult(i, rec, content, isError) ==
  YieldToolResultAt(i, rec, "done", content, isError)

SwallowError_AbortsBatch(i, rec) ==
  /\ tu' = [j \in DOMAIN tu |-> IF j = i THEN [rec EXCEPT !.pc = "done"]
                                 ELSE [tu[j] EXCEPT !.pc = "done"]]
  /\ UNCHANGED <<toolResults, lastYield, invYields>>

\* runToolUse's catch (query.ts:470-472): the error is logged, nothing is
\* yielded, and the generator returns normally.
SwallowError(i, rec) ==
  /\ tu' = [tu EXCEPT ![i] = [rec EXCEPT !.pc = "done"]]
  /\ UNCHANGED <<toolResults, lastYield, invYields>>

Suspend(i, rec, at) ==
  /\ tu' = [tu EXCEPT ![i] = [rec EXCEPT !.pc = at]]
  /\ UNCHANGED <<toolResults, lastYield, invYields>>

\* tool.call(...) is invoked and its generator awaited (query.ts:597-598).
CallTool(i, rec) ==
  /\ tu' = [tu EXCEPT ![i] = [rec EXCEPT !.pc = "calling", !.called = TRUE]]
  /\ UNCHANGED <<toolResults, lastYield, invYields>>

BatchFrame == UNCHANGED <<aborted, pc, depth, messages, pending, responses,
                          assistantMessage, shouldSkipPermissionCheck,
                          toolUseMessages, concurrent, pvars, xvars>>

OnUnknownTool_Silent(i) == SwallowError(i, tu[i])

\* query.ts:424-441: no tool of that name in the catalog.
OnUnknownTool(i) == YieldToolResult(i, tu[i], "NoSuchTool", TRUE)

\* runToolUse up to its first await (query.ts:421-456, 531-555): tool lookup,
\* abort check, schema validation, then the await of tool.validateInput.
StartToolUse(i) ==
  /\ pc = "tools"
  /\ MayStart(i)
  /\ IF ~HasTool(toolUseMessages[i].name)
       THEN OnUnknownTool(i)
     ELSE IF aborted
       THEN YieldToolResult(i, tu[i], createToolResultStopMessage(0).content, TRUE)
     ELSE \E schemaOk \in BOOLEAN :
            IF ~schemaOk
            THEN YieldToolResult(i, tu[i], "InputValidationError", TRUE)
            ELSE Suspend(i, tu[i], "validating")
  /\ BatchFrame

PermissionWaived_Never == FALSE

\* query.ts:580: the judge waived the permission check of this turn.
PermissionWaived == shouldSkipPermissionCheck

\* tool.validateInput resolves, rejects the input, or throws (query.ts:555-582).
ValidateReturns(i) ==
  /\ pc = "tools"
  /\ tu[i].pc = "validating"
  /\ \E outcome \in {"ok", "reject", "throw"} :
       CASE outcome = "reject" -> YieldToolResult(i, tu[i], "ValidationError", TRUE)
         [] outcome = "throw" -> SwallowError(i, tu[i])
         [] outcome = "ok" -> IF PermissionWaived
                                THEN CallTool(i, [tu[i] EXCEPT !.perm = "waived"])
                                ELSE Suspend(i, tu[i], "permission")
  /\ BatchFrame

\* What canUseTool may do. With dangerouslySkipPermissions set,
\* hasPermissionsToUseTool approves in its first statement (permissions.ts:
\* 224-227); otherwise it approves, denies, or throws.
CanUseToolOutcomes ==
  IF dangerouslySkipPermissions THEN {"approve"}
  ELSE {"approve", "deny", "throw"}

OnPermission_DenialIgnored(i, outcome) ==
  CASE outcome = "deny" -> CallTool(i, [tu[i] EXCEPT !.perm = outcome])
    [] outcome = "throw" -> SwallowError(i, tu[i])
    [] outcome = "approve" -> CallTool(i, [tu[i] EXCEPT !.perm = outcome])

\* query.ts:583-593: a denial ends the tool-use with an error result, an
\* approval goes on to the call; an exception leaves for runToolUse's catch.
OnPermission(i, outcome) ==
  CASE outcome = "deny" -> YieldToolResult(i, tu[i], "PermissionDenied", TRUE)
    [] outcome = "throw" -> SwallowError(i, tu[i])
    [] outcome = "approve" -> CallTool(i, [tu[i] EXCEPT !.perm = outcome])

\* canUseTool resolves to an approval or a denial, or throws (query.ts:582-597).
PermissionReturns(i) ==
  /\ pc = "tools"
  /\ tu[i].pc = "permission"
  /\ \E outcome \in CanUseToolOutcomes : OnPermission(i, outcome)
  /\ BatchFrame

OnResultEvent_NoReturn(i) == YieldToolResultAt(i, tu[i], "calling", "Result", FALSE)

\* query.ts:600-615: the result event becomes the tool-result message; when the
\* generator is resumed, `return` leaves the for-await, which closes the
\* tool's generator.
OnResultEvent(i) == YieldToolResultAt(i, tu[i], "closing", "Result", FALSE)

OnToolThrow_Propagates(i, rec) == SwallowError(i, rec)

\* query.ts:628-650: the catch around the call turns an exception into an
\* error result.
OnToolThrow(i, rec) == YieldToolResult(i, rec, "Exception", TRUE)

\* The tool's generator produces an event, ends without one, or throws
\* (query.ts:598-650).
ToolEvent(i) ==
  /\ pc = "tools"
  /\ tu[i].pc = "calling"
  /\ \E event \in {"progress", "result", "end", "throw"} :
       CASE event = "result" -> OnResultEvent(i)
         [] event = "throw" -> OnToolThrow(i, [tu[i] EXCEPT !.threw = TRUE])
         [] event = "end" -> Suspend(i, tu[i], "done")
         [] event = "progress" ->
              /\ tu' = [tu EXCEPT ![i].prog = TRUE,
                                  ![i].late = (tu[i].late \/ tu[i].nres > 0)]
              /\ lastYield' = "progress"
              /\ invYields' = Bump(invYields)
              /\ UNCHANGED toolResults
  /\ BatchFrame

\* The await of the tool generator's return() resumes (query.ts:615): it has
\* closed, or its cleanup threw, and the exception is inside the try block.
ToolClosed(i) ==
  /\ pc = "tools"
  /\ tu[i].pc = "closing"
  /\ \E closed \in BOOLEAN :
       IF closed THEN Suspend(i, tu[i], "done") ELSE OnToolThrow(i, tu[i])
  /\ BatchFrame

\* The for-await over the batch ends (query.ts:298-321): interrupted, or the
\* results are sorted and query recurses on the longer transcript.
BatchEnd ==
  /\ UNCHANGED <<pvars, xvars>>
  /\ pc = "tools"
  /\ \A i \in DOMAIN tu : tu[i].pc = "done"
  /\ IF InterruptedAfterTools
     THEN /\ pc' = "done"
          /\ lastYield' = "interruptTool"
          /\ invYields' = Bump(invYields)
          /\ UNCHANGED <<aborted, depth, messages, pending, responses,
                         assistantMessage, shouldSkipPermissionCheck,
                         toolUseMessages, concurrent, tu, toolResults>>
     ELSE /\ LET orderedToolResults == SortToolResults(toolResults, toolUseMessages)
             IN  QueryEntry(messages \o <<assistantMessage>> \o orderedToolResults,
                            depth + 1)
          /\ UNCHANGED <<aborted, lastYield>>

Next ==
  \/ Abort
  \/ QueryStart
  \/ GateReturns
  \/ ModelReturns
  \/ ResolveTurn
  \/ JudgeReturns
  \/ \E i \in DOMAIN tu : StartToolUse(i)
  \/ \E i \in DOMAIN tu : ValidateReturns(i)
  \/ \E i \in DOMAIN tu : PermissionReturns(i)
  \/ \E i \in DOMAIN tu : ToolEvent(i)
  \/ \E i \in DOMAIN tu : ToolClosed(i)
  \/ BatchEnd

vars == <<qvars, pvars, xvars>>

\* The query loop.
Spec == Init /\ [][Next]_vars

\* The query loop of a session that skips permissions.
SpecSkipping == InitSkipping /\ [][Next]_vars

\* The shell-command permission check.
SpecPerm == InitPerm /\ [][NextPerm]_vars

\* hasPermissionsToUseTool on one shell command.
SpecShell == InitShell /\ [][NextShell]_vars

\* ------------------------------------------------- model-call wrapper actions
\* queryOpenAI is called; withRetry will allow maxRetries retries.
InitCall ==
  /\ aborted = FALSE
  /\ QueryIdle
  /\ PermIdle
  /\ userType \in {"external", "SWE_BENCH"}
  /\ maxRetries \in 0..MaxRetries
  /\ cpc = "start"
  /\ attempt = 0
  /\ lastError = NoError
  /\ waits = <<>>
  /\ callResult = NoCallResult
  /\ MsgIdle
  /\ StoreIdle
  /\ CostIdle
  /\ OptionsIdle

CallFrame == UNCHANGED <<aborted, qvars, pvars, mvars, svars, ovars, dvars, hvars, kvars,
                         userType, maxRetries>>

\* useApiKeyVerification.ts:1041-1113: the request is prepared outside the try
\* block: system prompt, the awaited tool prompts and schemas, the message
\* conversion. A throw there leaves queryOpenAI; otherwise withRetry starts
\* its first attempt.
PrepareRequest ==
  /\ cpc = "start"
  /\ \E ok \in BOOLEAN :
       IF ok
       THEN cpc' = "attempt" /\ attempt' = 1 /\ callResult' = callResult
       ELSE cpc' = "done" /\ attempt' = attempt /\ callResult' = Thrown("prepare")
  /\ UNCHANGED <<lastError, waits>>
  /\ UNCHANGED tvars
  /\ CallFrame

\* useApiKeyVerification.ts:280-284, 1119-1156: the operation of this attempt
\* resolves; withRetry returns its value to queryOpenAI.
AttemptSucceeds ==
  /\ cpc = "attempt"
  /\ cpc' = "post"
  /\ UNCHANGED <<attempt, lastError, waits, callResult>>
  /\ UNCHANGED tvars
  /\ CallFrame

\* useApiKeyVerification.ts:284-311, 1157-1160: the operation of this attempt
\* fails. withRetry rethrows, and queryOpenAI's catch turns the error into a
\* message, or it computes the delay and sleeps.
AttemptFails ==
  /\ cpc = "attempt"
  /\ \E error \in Failures :
       /\ lastError' = error
       /\ IF GivesUp(attempt, error)
          THEN /\ cpc' = "done"
               /\ callResult' = getAssistantMessageFromError(error)
               /\ UNCHANGED waits
          ELSE /\ cpc' = "sleeping"
               /\ waits' = Append(waits,
                                  [delayMs |-> getRetryDelay(attempt, error.retryAfter),
                                   retryAfter |-> error.retryAfter])
               /\ UNCHANGED callResult
  /\ UNCHANGED attempt
  /\ UNCHANGED tvars
  /\ CallFrame

\* useApiKeyVerification.ts:280, 310: the timer fires, the loop goes on.
RetryTimerFires ==
  /\ cpc = "sleeping"
  /\ attempt' = attempt + 1
  /\ cpc' = "attempt"
  /\ UNCHANGED <<lastError, waits, callResult>>
  /\ UNCHANGED tvars
  /\ CallFrame

\* useApiKeyVerification.ts:1161-1195: usage, cost accounting and content
\* normalisation run outside the try block. Reading the usage may throw, before
\* addToTotalCost (1178); normalizeContentFromAPI (1183) may throw after it.
PostProcess ==
  /\ cpc = "post"
  /\ \/ /\ callResult' = Thrown("post-process")
        /\ UNCHANGED costSTATE
     \/ \E costUSD \in Costs, durationMsIncludingRetries \in Durations, ok \in BOOLEAN :
          /\ costSTATE' = addToTotalCost(costUSD, durationMsIncludingRetries)
          /\ callResult' = IF ok THEN ResponseMessage(costUSD)
                                 ELSE Thrown("post-process")
  /\ cpc' = "done"
  /\ UNCHANGED <<attempt, lastError, waits>>
  /\ CallFrame

NextCall ==
  \/ PrepareRequest
  \/ AttemptSucceeds
  \/ AttemptFails
  \/ RetryTimerFires
  \/ PostProcess

\* One call of the model-call wrapper (querySonnet -> queryOpenAI -> withRetry).
SpecCall == InitCall /\ [][NextCall]_vars

\* The totals up to which a further model call is followed: ms, and dollars.
MaxTotalDuration == 14

MaxTotalCost == 3

\* A session's first model call, without retries.
InitCost ==
  /\ aborted = FALSE
  /\ QueryIdle
  /\ PermIdle
  /\ userType = "external"
  /\ maxRetries = 0
  /\ cpc = "start"
  /\ attempt = 0
  /\ lastError = NoError
  /\ waits = <<>>
  /\ callResult = NoCallResult
  /\ MsgIdle
  /\ StoreIdle /\ CostIdle
  /\ OptionsIdle

\* query.ts:216-242: the session issues its next model call.
NextModelCall ==
  /\ cpc = "done"
  /\ costSTATE.totalAPIDuration < MaxTotalDuration
  /\ costSTATE.totalCost < MaxTotalCost * FloatOne
  /\ cpc' = "start"
  /\ attempt' = 0
  /\ lastError' = NoError
  /\ waits' = <<>>
  /\ callResult' = NoCallResult
  /\ UNCHANGED tvars
  /\ CallFrame

NextCost ==
  \/ PrepareRequest
  \/ AttemptSucceeds
  \/ AttemptFails
  \/ PostProcess
  \/ NextModelCall

\* The model calls of a session, one after the other, and the running totals.
SpecCost == InitCost /\ [][NextCost]_vars

\* useApiKeyVerification.ts:188
MAX_RETRIES == IF userType = "SWE_BENCH" THEN 100 ELSE 10

\* withRetry, called with the default maxRetries, is at some attempt of its loop.
InitBackoff ==
  /\ aborted = FALSE
  /\ QueryIdle
  /\ PermIdle
  /\ userType \in {"external", "SWE_BENCH"}
  /\ maxRetries = MAX_RETRIES
  /\ cpc = "attempt"
  /\ attempt \in 1..MaxAttempt
  /\ lastError = NoError
  /\ waits = <<>>
  /\ callResult = NoCallResult
  /\ MsgIdle
  /\ StoreIdle
  /\ CostIdle
  /\ OptionsIdle

\* The failure of one attempt of withRetry, at any attempt of the loop.
SpecBackoff == InitBackoff /\ [][AttemptFails]_vars

\* --------------------------------------------------- message layer operations
\* A session's message list starts empty.
InitMsg ==
  /\ aborted = FALSE
  /\ QueryIdle
  /\ PermIdle
  /\ CallIdle
  /\ msgIn = <<>>
  /\ msgOut = <<>>
  /\ mpc = "list"
  /\ StoreIdle
  /\ CostIdle
  /\ OptionsIdle

MsgFrame == UNCHANGED <<aborted, qvars, pvars, cvars, svars, ovars, tvars, dvars, hvars, kvars>>

\* A message object is added to the list; every object has its own uuid.
AddMessage ==
  /\ mpc = "list"
  /\ Len(msgIn) < MaxMessages
  /\ \E m \in MessageAlphabet :
       msgIn' = Append(msgIn, [m EXCEPT !.uuid = <<Len(msgIn) + 1, 0>>])
  /\ UNCHANGED <<msgOut, mpc>>
  /\ MsgFrame

\* query.ts:217-231: the list is normalised for the model call.
ApplyNormalizeMessagesForAPI ==
  /\ mpc = "list"
  /\ msgOut' = normalizeMessagesForAPI(msgIn)
  /\ mpc' = "api"
  /\ UNCHANGED msgIn
  /\ MsgFrame

\* The normalised list is normalised for the model call once more.
ApplyNormalizeMessagesForAPIAgain ==
  /\ mpc = "api"
  /\ msgIn' = msgOut
  /\ msgOut' = normalizeMessagesForAPI(msgOut)
  /\ mpc' = "api-twice"
  /\ MsgFrame

\* REPL.tsx:502: the list is normalised for display.
ApplyNormalizeMessages ==
  /\ mpc = "list"
  /\ msgOut' = normalizeMessages(msgIn)
  /\ mpc' = "display"
  /\ UNCHANGED msgIn
  /\ MsgFrame

\* REPL.tsx:537: the display-normalised list is reordered.
ApplyReorderMessages ==
  /\ mpc = "display"
  /\ msgIn' = msgOut
  /\ msgOut' = reorderMessages(msgOut)
  /\ mpc' = "reordered"
  /\ MsgFrame

\* REPL.tsx:506-523: the id sets are computed from the display-normalised
\* list; the errored messages are mapped to their tool-use ids.
ApplyToolUseIDs ==
  /\ mpc = "display"
  /\ msgIn' = msgOut
  /\ msgOut' = [unresolved |-> Range(getUnresolvedToolUseIDs(msgOut)),
                inProgress |-> Range(getInProgressToolUseIDs(msgOut)),
                errored |-> Range(FirstBlockIds(getErroredToolUseMessages(msgOut)))]
  /\ mpc' = "ids"
  /\ MsgFrame

NextMsg ==
  \/ AddMessage
  \/ ApplyNormalizeMessagesForAPI
  \/ ApplyNormalizeMessagesForAPIAgain
  \/ ApplyNormalizeMessages
  \/ ApplyReorderMessages
  \/ ApplyToolUseIDs

\* The message normalisation functions applied to message lists.
SpecMsg == InitMsg /\ [][NextMsg]_vars

\* ------------------------------------------- scheduling of a large tool batch
\* The assistant turns whose batch is scheduled: n read-only tool-uses, or
\* n - 1 of them followed by a mutating one.
BatchTurns ==
  { [type |-> "assistant", isArray |-> TRUE, isApiErrorMessage |-> FALSE,
     content |-> <<TextBlock>> \o
                 [i \in 1..n |-> ToolUseBlock(<<0, 1, i>>,
                                              IF i = n THEN last ELSE "View")]]
      : n \in 1..MaxBatchSize, last \in {"View", "Bash"} }

\* query.ts:244-272: query has yielded the assistant message of the turn and
\* is about to run its tool-uses.
InitBatch ==
  /\ aborted = FALSE
  /\ PermIdle
  /\ XIdle
  /\ pc = "tools"
  /\ depth = 0
  /\ messages = <<UserPrompt>>
  /\ pending = {}
  /\ responses = <<NoMessage, NoMessage>>
  /\ assistantMessage \in BatchTurns
  /\ shouldSkipPermissionCheck = FALSE
  /\ toolUseMessages = ToolUseBlocks(assistantMessage)
  /\ concurrent = AllReadOnly(toolUseMessages)
  /\ tu = [i \in DOMAIN toolUseMessages |-> NewToolUse]
  /\ toolResults = <<>>
  /\ lastYield = "assistant"
  /\ invYields = 1

\* query.ts:340-360, 377-394: the scheduler takes the next runToolUse
\* generator; the generator runs up to the call of its tool.
BatchToolStarts(i) ==
  /\ pc = "tools"
  /\ MayStart(i)
  /\ CallTool(i, tu[i])
  /\ BatchFrame

\* The generator of tool-use i returns. Only the scheduling is followed here:
\* the messages it yielded are not collected.
BatchToolReturns(i) ==
  /\ pc = "tools"
  /\ tu[i].pc = "calling"
  /\ tu' = [tu EXCEPT ![i].pc = "done", ![i].nres = 1]
  /\ UNCHANGED <<toolResults, lastYield, invYields>>
  /\ BatchFrame

NextBatch ==
  \/ \E i \in DOMAIN tu : BatchToolStarts(i)
  \/ \E i \in DOMAIN tu : BatchToolReturns(i)

\* The scheduling of one batch of tool-uses.
SpecBatch == InitBatch /\ [][NextBatch]_vars

\* ------------------------------------------------------- the approval store
\* The tools a permission is asked or saved for, by tool.name: the shell tool,
\* the three file-editing tools, and two tools of the default branch.
FileEditTools == {"FileEditTool", "FileWriteTool", "NotebookEditTool"}

OtherTools == {"GrepTool", "View"}

Tools == {BashToolName} \cup FileEditTools \cup OtherTools

\* Every key of the model, in the order Array.prototype.sort gives strings
\* (UTF-16 code units: ' ' < ')' < ':' and 'B' < 'F' < 'G' < 'N' < 'V').
KeyOrder == KnownKeys \o << "FileEditTool", "FileWriteTool", "GrepTool",
                            "NotebookEditTool", "View" >>

Rank(key) == CHOOSE i \in DOMAIN KeyOrder : KeyOrder[i] = key

\* One step of the sort: key placed after the entries that do not follow it.
InsertSorted(list, key) ==
  LET n == Cardinality({ i \in DOMAIN list : Rank(list[i]) <= Rank(key) })
  IN  SubSeq(list, 1, n) \o <<key>> \o SubSeq(list, n + 1, Len(list))

sort_Skipped(list) == list

\* Array.prototype.sort() with the default comparison; equal entries are kept.
RECURSIVE sort(_)
sort(list) ==
  IF list = <<>> THEN <<>>
  ELSE InsertSorted(sort(SubSeq(list, 1, Len(list) - 1)), list[Len(list)])

\* permissions.ts:300-327: the list savePermission leaves in the project config.
savePermission(tool, c, prefix, list) ==
  LET key == getPermissionKey(tool, c, prefix)
  IN  IF tool \in FileEditTools THEN list
      ELSE IF Includes(list, key) THEN list
      ELSE sort(Append(list, key))

hasPermissionsToUseTool_ListForAll(tool, skip, signalAborted, needs, allowed) ==
  IF skip THEN "approve"
  ELSE IF signalAborted THEN "AbortError"
  ELSE IF needs = "throws" THEN "deny"
  ELSE IF needs = "no" THEN "approve"
  ELSE IF Includes(allowed, getPermissionKey(tool, "", null)) THEN "approve"
  ELSE "deny"

\* permissions.ts:218-286, for a tool other than the shell tool (whose branch
\* continues in bashToolHasPermission): how the call ends. needs is what
\* tool.needsPermissions(input) does: "yes", "no" or "throws". A file-editing
\* tool is asked twice (238, 264) within one synchronous run and answers alike.
hasPermissionsToUseTool(tool, skip, signalAborted, needs, allowed) ==
  IF skip THEN "approve"
  ELSE IF signalAborted THEN "AbortError"
  ELSE IF needs = "throws" THEN "deny"
  ELSE IF needs = "no" THEN "approve"
  ELSE IF tool \in FileEditTools THEN "deny"
  ELSE IF Includes(allowed, getPermissionKey(tool, "", null)) THEN "approve"
  ELSE "deny"

\* The shell commands an approval is saved for, and the prefix the permission
\* dialog passes along: none, empty, a leading word, or the whole command.
StoreCommands == {"ls -l", "ls -l && rm x"}

StorePrefixes == {null, "", "ls", "ls -l", "rm"}

SaveInputs ==
  { [tool |-> BashToolName, command |-> c, prefix |-> p]
      : c \in StoreCommands, p \in StorePrefixes }
  \cup { [tool |-> t, command |-> "", prefix |-> null]
           : t \in FileEditTools \cup OtherTools }

\* The lists a project config file may hold when it is loaded.
LoadedLists == { SelectSeq(KeyOrder, LAMBDA k : k \in S) : S \in SUBSET Range(KeyOrder) }

\* A session starts with nothing approved.
InitStore ==
  /\ aborted = FALSE
  /\ QueryIdle
  /\ PermIdle
  /\ XIdle

\* A session starts on a project whose config already lists approvals.
InitStoreLoaded ==
  /\ aborted = FALSE
  /\ QueryIdle
  /\ parts = <<"pwd">>
  /\ allowedTools \in LoadedLists
  /\ ppc = "idle"
  /\ prefixResult = NoOutcome
  /\ permissionResult = "none"
  /\ XIdle

StoreFrame == UNCHANGED <<qvars, parts, ppc, prefixResult, permissionResult,
                          cvars, mvars, ovars, tvars, dvars, hvars, kvars>>

\* permissions.ts:300-327: the user approved a permission request. The function
\* has no await before its last statement.
SavePermission ==
  /\ \E in \in SaveInputs :
       /\ allowedTools' = savePermission(in.tool, in.command, in.prefix, allowedTools)
       /\ writeGranted' = (writeGranted \/ in.tool \in FileEditTools)
       /\ storeCall' = [op |-> "savePermission", tool |-> in.tool,
                        command |-> in.command, prefix |-> in.prefix]
  /\ StoreFrame

\* permissions.ts:218-286: the pipeline asks whether a tool may run.
HasPermissionsToUseTool ==
  /\ \E tool \in FileEditTools \cup OtherTools, skip \in BOOLEAN,
        signalAborted \in BOOLEAN, needs \in {"yes", "no", "throws"} :
       storeCall' = [op |-> "hasPermissionsToUseTool", tool |-> tool,
                     needsPermissions |-> IF skip \/ signalAborted
                                          THEN "unasked" ELSE needs,
                     result |-> hasPermissionsToUseTool(tool, skip, signalAborted,
                                                        needs, allowedTools)]
  /\ UNCHANGED <<allowedTools, writeGranted>>
  /\ StoreFrame

NextStore ==
  \/ SavePermission
  \/ HasPermissionsToUseTool

SpecStore == InitStore /\ [][NextStore]_vars

SpecStoreLoaded == InitStoreLoaded /\ [][NextStore]_vars

\* ------------------------------------------------- the double-press detector
\* useDoublePress.ts:14
DOUBLE_PRESS_TIMEOUT_MS == 2000

\* The clock is read in steps of half a window.
ClockStep == DOUBLE_PRESS_TIMEOUT_MS \div 2

MaxClockSteps == 5
MaxPresses == 4

\* The rest of the program while the detector runs.
PressFrame == UNCHANGED <<qvars, pvars, cvars, mvars, svars, ovars, tvars, hvars, kvars>>

InitDoublePress ==
  /\ Init
  /\ pc = "start"

\* Time passes between two events of the event loop.
ClockAdvances ==
  /\ now < MaxClockSteps * ClockStep
  /\ now' = now + ClockStep
  /\ UNCHANGED <<lastPressRef, timeoutRef, timers, pendingPress, presses>>
  /\ PressFrame

\* A press that clears nothing when it is taken as the second of a pair.
Press_KeepsTimer ==
  /\ Len(presses) < MaxPresses
  /\ LET timeSinceLastPress == now - lastPressRef
         handle == <<Len(presses) + 1>>
     IN  /\ IF timeSinceLastPress <= DOUBLE_PRESS_TIMEOUT_MS /\ timeoutRef # NoTimer
              THEN /\ presses' = Append(presses, [at |-> now, handled |-> "onDoublePress"])
                   /\ pendingPress' = FALSE
                   /\ UNCHANGED <<timers, timeoutRef>>
              ELSE /\ presses' = Append(presses, [at |-> now, handled |-> "onFirstPress"])
                   /\ pendingPress' = TRUE
                   /\ timers' = timers \cup {[handle |-> handle,
                                              due |-> now + DOUBLE_PRESS_TIMEOUT_MS]}
                   /\ timeoutRef' = handle
         /\ lastPressRef' = now
  /\ UNCHANGED now
  /\ PressFrame

\* useDoublePress.ts:32-57: the function the hook returns is called. The timer
\* of an earlier first press is cleared by a double press only.
Press ==
  /\ Len(presses) < MaxPresses
  /\ LET timeSinceLastPress == now - lastPressRef
         handle == <<Len(presses) + 1>>
     IN  /\ IF timeSinceLastPress <= DOUBLE_PRESS_TIMEOUT_MS /\ timeoutRef # NoTimer
              THEN /\ timers' = {t \in timers : t.handle # timeoutRef}
                   /\ timeoutRef' = NoTimer
                   /\ presses' = Append(presses, [at |-> now, handled |-> "onDoublePress"])
                   /\ pendingPress' = FALSE
              ELSE /\ presses' = Append(presses, [at |-> now, handled |-> "onFirstPress"])
                   /\ pendingPress' = TRUE
                   /\ timers' = timers \cup {[handle |-> handle,
                                              due |-> now + DOUBLE_PRESS_TIMEOUT_MS]}
                   /\ timeoutRef' = handle
         /\ lastPressRef' = now
  /\ UNCHANGED now
  /\ PressFrame

\* useDoublePress.ts:50-53: the callback of a timer runs, at its due time or
\* later; it leaves timeoutRef as it is.
TimerExpires ==
  /\ \E t \in timers :
       /\ now >= t.due
       /\ timers' = timers \ {t}
  /\ pendingPress' = FALSE
  /\ UNCHANGED <<now, lastPressRef, timeoutRef, presses>>
  /\ PressFrame

NextDoublePress ==
  \/ ClockAdvances
  \/ Press
  \/ TimerExpires

SpecDoublePress == InitDoublePress /\ [][NextDoublePress]_vars

\* ------------------------------------------------------- the prompt history
\* history.ts:15
MAX_HISTORY_ITEMS == 100

MaxHistoryCalls == 3

HistoryCommands == {"ls", "pwd", "make"}

\* A few persisted histories of the lengths that matter: none, one entry, one
\* short of the limit and at the limit; no two neighbours are equal.
StoredHistories ==
  {[i \in 1..n |-> IF i % 2 = 1 THEN c.odd ELSE c.even] :
     n \in {0, 1, MAX_HISTORY_ITEMS - 1, MAX_HISTORY_ITEMS},
     c \in {p \in [odd : HistoryCommands, even : HistoryCommands] : p.odd # p.even}}

\* history.slice(0, n)
slice(xs, n) == SubSeq(xs, 1, IF Len(xs) < n THEN Len(xs) ELSE n)

\* An addToHistory that saves the whole list.
addToHistory_Unsliced(stored, cmd) ==
  IF Len(stored) > 0 /\ stored[1] = cmd
    THEN stored
    ELSE <<cmd>> \o stored

\* history.ts:34-45: the list saved by addToHistory(cmd) over the stored list.
addToHistory(stored, cmd) ==
  IF Len(stored) > 0 /\ stored[1] = cmd
    THEN stored
    ELSE slice(<<cmd>> \o stored, MAX_HISTORY_ITEMS)

HistoryFrame == UNCHANGED <<qvars, pvars, cvars, mvars, svars, ovars, tvars, dvars, kvars>>

InitHistory ==
  /\ aborted = FALSE
  /\ QueryIdle
  /\ PermIdle
  /\ CallIdle /\ MsgIdle /\ StoreIdle /\ OptionsIdle
  /\ CostTrackerIdle /\ DoublePressIdle /\ KeysIdle
  /\ history \in StoredHistories
  /\ historyCalls = <<>>

\* REPL.tsx:312, 361: a prompt is submitted and recorded.
AddToHistory ==
  /\ Len(historyCalls) < MaxHistoryCalls
  /\ \E cmd \in HistoryCommands :
       /\ history' = addToHistory(history, cmd)
       /\ historyCalls' = Append(historyCalls, [command |-> cmd, before |-> history])
  /\ HistoryFrame

SpecHistory == InitHistory /\ [][AddToHistory]_vars

\* ------------------------------------------------------- the API key rotation
MaxKeys == 3

\* The keys a configuration may list, by number.
ApiKeyNames == 1..MaxKeys

\* The key lists of a configuration: no key twice.
ConfiguredKeys ==
  UNION {{ks \in [1..n -> ApiKeyNames] : \A i, j \in 1..n : i # j => ks[i] # ks[j]} :
           n \in 0..MaxKeys}

NoKey == [kind |-> "undefined", key |-> 0]

\* keyArray[index], counted from 0 as in the source: undefined outside the array.
ElementAt(keyArray, index) ==
  IF index >= 0 /\ index < Len(keyArray)
    THEN [kind |-> "key", key |-> keyArray[index + 1]]
    ELSE NoKey

\* a % n of JavaScript: the result has the sign of a.
JsRemainder(a, n) == IF a >= 0 THEN a % n ELSE 0 - ((0 - a) % n)

\* config.ts:1011-1014: the configured keys that are not marked failed, in the
\* order of the configuration.
UnfailedKeys == SelectSeq(apiKeys, LAMBDA key : key \notin Range(failedApiKeys))

KeyFrame == UNCHANGED <<qvars, pvars, cvars, mvars, svars, ovars, tvars, dvars, hvars>>

InitKeys ==
  /\ aborted = FALSE
  /\ QueryIdle
  /\ PermIdle
  /\ CallIdle /\ MsgIdle /\ StoreIdle /\ OptionsIdle
  /\ CostTrackerIdle /\ DoublePressIdle /\ HistoryIdle
  /\ apiKeys \in ConfiguredKeys
  /\ failedApiKeys = <<>>
  /\ currentApiKeyIndex = 0
  /\ keyCall = NoKeyCall

\* config.ts:998-1029
GetActiveApiKey ==
  /\ \E roundRobin \in BOOLEAN :
       LET keyArray == UnfailedKeys
           currentIndex == currentApiKeyIndex
       IN  IF Len(keyArray) = 0
             THEN /\ keyCall' = [op |-> "get", roundRobin |-> roundRobin,
                                 result |-> NoKey]
                  /\ UNCHANGED currentApiKeyIndex
           ELSE IF ~roundRobin
             THEN /\ keyCall' = [op |-> "get", roundRobin |-> roundRobin,
                                 result |-> ElementAt(keyArray, currentIndex)]
                  /\ UNCHANGED currentApiKeyIndex
           ELSE LET nextIndex == JsRemainder(currentIndex + 1, Len(keyArray))
                IN  /\ currentApiKeyIndex' = nextIndex
                    /\ keyCall' = [op |-> "get", roundRobin |-> roundRobin,
                                   result |-> ElementAt(keyArray, nextIndex)]
  /\ UNCHANGED <<apiKeys, failedApiKeys>>
  /\ KeyFrame

\* config.ts:1039-1051: a key the rotation handed out is marked failed.
MarkApiKeyAsFailed ==
  /\ keyCall.op = "get"
  /\ keyCall.result.kind = "key"
  /\ LET key == keyCall.result.key
     IN  /\ IF key \notin Range(failedApiKeys)
              THEN /\ failedApiKeys' = Append(failedApiKeys, key)
                   /\ currentApiKeyIndex' = currentApiKeyIndex - 1
              ELSE UNCHANGED <<failedApiKeys, currentApiKeyIndex>>
         /\ keyCall' = [op |-> "mark", roundRobin |-> FALSE,
                        result |-> [kind |-> "key", key |-> key]]
  /\ UNCHANGED apiKeys
  /\ KeyFrame

NextKeys ==
  \/ GetActiveApiKey
  \/ MarkApiKeyAsFailed

SpecKeys == InitKeys /\ [][NextKeys]_vars

\* ================================================================ properties
\* Helpers of the properties below: they read the state, not the operators
\* that model the code.
LastAssistantIndex(ms) ==
  CHOOSE k \in DOMAIN ms :
    /\ ms[k].type = "assistant"
    /\ \A j \in DOMAIN ms : ms[j].type = "assistant" => j <= k

\* Position of the tool_use block with this id in an assistant message (0: none).
RequestPosition(m, id) ==
  IF \E j \in DOMAIN m.content : m.content[j].type = "tool_use" /\ m.content[j].id = id
  THEN CHOOSE j \in DOMAIN m.content :
         m.content[j].type = "tool_use" /\ m.content[j].id = id
  ELSE 0

RequestedIds(m) ==
  { m.content[j].id : j \in { x \in DOMAIN m.content : m.content[x].type = "tool_use" } }

ResultIds(ms) ==
  UNION { { ms[k].content[j].tool_use_id :
              j \in { x \in DOMAIN ms[k].content : ms[k].content[x].type = "tool_result" } }
          : k \in { x \in DOMAIN ms : ms[x].type = "user" } }

IsReadOnlyName(name) == \E t \in TOOLS : t.name = name /\ t.readOnly

Running(i) == tu[i].pc \notin {"waiting", "done"}

\* C1: in the transcript a recursive query invocation submits, the tool-result
\* messages that follow the last assistant message are in the order of that
\* message's tool-use requests.
C1_ResultsInRequestOrder ==
  depth > 0 =>
    LET a == LastAssistantIndex(messages)
    IN  \A p, q \in (a + 1)..Len(messages) :
          p < q =>
            RequestPosition(messages[a], messages[p].content[1].tool_use_id)
              < RequestPosition(messages[a], messages[q].content[1].tool_use_id)

\* C2: when some requested tool is not a read-only tool of the catalog, a
\* tool-use has started only if every tool-use requested before it has returned,
\* so at most one execution is running at any moment.
C2_SerialWhenNotAllReadOnly ==
  (pc = "tools" /\ \E i \in DOMAIN toolUseMessages :
                     ~IsReadOnlyName(toolUseMessages[i].name)) =>
    /\ \A i, j \in DOMAIN tu :
         (i < j /\ tu[j].pc # "waiting") => tu[i].pc = "done"
    /\ Cardinality({ i \in DOMAIN tu : Running(i) }) <= 1

\* C2 witness: a batch mixing a mutating and a read-only tool, the first
\* tool-use returned and the second one running.
C2_Witness ==
  /\ pc = "tools"
  /\ Len(toolUseMessages) = 2
  /\ toolUseMessages[1].name = "View"
  /\ toolUseMessages[2].name = "Bash"
  /\ tu[1].pc = "done"
  /\ tu[1].called
  /\ tu[2].pc = "calling"

\* C6: a tool-use whose runToolUse generator has returned has yielded exactly one
\* tool-result message (progress messages only before it).
C6_ExactlyOneToolResult ==
  \A i \in DOMAIN tu : tu[i].pc = "done" => tu[i].nres = 1

\* C7: the transcript of a recursive query invocation, as submitted to the
\* model, holds a tool-result block for every tool-use block of its last
\* assistant message.
C7_NoUnresolvedToolUseAtModelCall ==
  (depth > 0 /\ pc = "model") =>
    RequestedIds(messages[LastAssistantIndex(messages)])
      \subseteq ResultIds(normalizeMessagesForAPI(messages))

\* C8: once the signal is set while a tool batch is dispatched, the step that
\* ends the batch yields the interrupted-for-tool-use message and terminates
\* the query at the same depth with no model call issued; a terminated query
\* takes no further step.
C8_InterruptedDuringTools ==
  [][ /\ (pc = "tools" /\ aborted /\ pc' # "tools") =>
           /\ pc' = "done"
           /\ lastYield' = "interruptTool"
           /\ depth' = depth
           /\ pending' = {}
      /\ (pc = "done") => (pc' = "done" /\ pending' = pending /\ lastYield' = lastYield)
    ]_vars

\* C8 witness: the query ended with the interrupted-for-tool-use message after a
\* tool of the batch had been invoked (so the signal was set after dispatch).
C8_Witness ==
  /\ pc = "done"
  /\ aborted
  /\ lastYield = "interruptTool"
  /\ \E i \in DOMAIN tu : tu[i].called

\* C9: when the signal is set by the time the awaited model call(s) have all
\* resolved, the query leaves the await by yielding the interrupted message as
\* the invocation's only message and terminating: no assistant message is chosen,
\* the judge is not invoked, no tool-use is dispatched, the depth is unchanged.
C9_InterruptedDuringModelCall ==
  [][ (pc = "model" /\ aborted /\ pc' # "model") =>
        /\ pc' = "done"
        /\ lastYield' = "interrupt"
        /\ invYields' = 1
        /\ assistantMessage' = NoMessage
        /\ tu' = <<>>
        /\ depth' = depth
        /\ pending' = {}
    ]_vars

\* C9 witness: comparison mode, both calls resolved (the second to an API error,
\* so the judge was not the one to end the turn), the signal set, and the query
\* ended with the interrupted message as its only message.
C9_Witness ==
  /\ pc = "done"
  /\ aborted
  /\ lastYield = "interrupt"
  /\ invYields = 1
  /\ responses[2] # NoMessage
  /\ responses[2].isApiErrorMessage

\* C10: when the chosen assistant message has no tool_use block the query has
\* terminated having yielded that one message: no tool-use exists, no model call
\* is in flight.
C10_NoToolUseTerminates ==
  (assistantMessage # NoMessage /\ RequestedIds(assistantMessage) = {}) =>
    /\ pc = "done"
    /\ invYields = 1
    /\ lastYield = "assistant"
    /\ tu = <<>>
    /\ pending = {}

\* C10 witness: a recursive invocation whose assistant turn requested no tool.
C10_Witness ==
  /\ depth = 1
  /\ pc = "done"
  /\ assistantMessage # NoMessage
  /\ ~assistantMessage.isApiErrorMessage
  /\ RequestedIds(assistantMessage) = {}

\* ------------------------------------------- properties of the permission check
ExactKey(c) == "Bash(" \o c \o ")"

PrefixKey(prefix) == "Bash(" \o prefix \o ":*)"

Stored(key) == \E i \in DOMAIN allowedTools : allowedTools[i] = key

\* The check returned a result, after the classifier resolved to a result that
\* does not flag the whole command.
ReturnedUnflagged ==
  /\ ppc = "done"
  /\ permissionResult \in {"approve", "deny"}
  /\ prefixResult.kind = "result"
  /\ ~prefixResult.commandInjectionDetected

\* A sub-command has a classifier result that is not injection-flagged and is
\* approved on its own: safe list, exact entry, a prefix entry for the
\* sub-command itself, or the entry of its derived prefix.
IndividuallyApproved(sub) ==
  /\ sub \in DOMAIN prefixResult.subcommandPrefixes
  /\ ~prefixResult.subcommandPrefixes[sub].commandInjectionDetected
  /\ \/ sub \in SAFE_COMMANDS
     \/ Stored(ExactKey(sub))
     \/ Stored(PrefixKey(sub))
     \/ /\ prefixResult.subcommandPrefixes[sub].commandPrefix # null
        /\ Stored(PrefixKey(prefixResult.subcommandPrefixes[sub].commandPrefix))

\* The sub-commands left after dropping every `cd <cwd>`.
CheckedParts == SelectSeq(parts, LAMBDA x : x # "cd /cwd")

\* C3: when the classifier throws or resolves to null (and the signal is not
\* set), the permission check ends in a denial.
C3_ClassifierFailureDenies ==
  (ppc = "done" /\ prefixResult.kind \in {"throw", "null"} /\ ~aborted) =>
    permissionResult = "deny"

\* C4 as stated: a command of two or more sub-commands, not flagged, is approved
\* iff every one of its sub-commands is individually approved.
C4_EverySubCommandOfTheSplit ==
  (ReturnedUnflagged /\ Len(parts) >= 2) =>
    (permissionResult = "approve" <=>
       \A i \in DOMAIN parts : IndividuallyApproved(parts[i]))

\* C4 as amended: when two or more sub-commands remain after dropping every
\* `cd <cwd>`, the command is approved iff every remaining sub-command is
\* individually approved.
C4_EveryCheckedSubCommand ==
  (ReturnedUnflagged /\ Len(CheckedParts) >= 2) =>
    (permissionResult = "approve" <=>
       \A i \in DOMAIN CheckedParts : IndividuallyApproved(CheckedParts[i]))

\* C4 witness: a compound command behind a leading `cd <cwd>`, approved through
\* the stored prefix entries of its two remaining sub-commands.
C4_Witness ==
  /\ ReturnedUnflagged
  /\ parts = <<"cd /cwd", "ls -l", "rm x">>
  /\ allowedTools = <<"Bash(ls:*)", "Bash(rm:*)">>
  /\ permissionResult = "approve"

\* C5: a command the classifier flags for injection is approved only if it is in
\* the safe list or has an exact stored entry.
C5_InjectionNeedsExactMatch ==
  (/\ ppc = "done"
   /\ prefixResult.kind = "result"
   /\ prefixResult.commandInjectionDetected
   /\ permissionResult = "approve") =>
    (command \in SAFE_COMMANDS \/ Stored(ExactKey(command)))

\* C5 witness: a flagged command whose derived prefix has a stored prefix entry,
\* denied.
C5_Witness ==
  /\ ppc = "done"
  /\ prefixResult.kind = "result"
  /\ prefixResult.commandInjectionDetected
  /\ prefixResult.commandPrefix # null
  /\ Stored(PrefixKey(prefixResult.commandPrefix))
  /\ permissionResult = "deny"

\* ---------------------------------------- properties of the model-call wrapper
\* C11: the model-call wrapper never throws: whatever fails, the call ends in
\* an assistant message.
C11_ModelCallNeverThrows ==
  cpc = "done" => callResult.kind = "message"

\* A failure withRetry retries when retries are left.
Retryable(error) == error.api /\ shouldRetry(error)

\* The retry-after header replaced the computed backoff of this wait.
Overridden(w) ==
  w.retryAfter.set /\ w.retryAfter.text # <<>> /\ ~parseInt(w.retryAfter.text).nan

\* C12: withRetry with maximum M. After k <= M retryable failures and a success
\* exactly k+1 attempts were made and the value is returned; a retryable
\* failure is raised only by attempt M+1, after M waits, and it is the last
\* error; the computed backoff waits never decrease from one attempt to a
\* later one, and a wait overridden by retry-after is its seconds times 1000.
C12_RetryAttemptsAndBackoff ==
  /\ attempt <= maxRetries + 1
  /\ cpc = "post" => (attempt = Len(waits) + 1 /\ Len(waits) <= maxRetries)
  /\ (cpc = "done" /\ attempt >= 1 /\ callResult.kind = "message"
        /\ callResult.isApiErrorMessage /\ Retryable(lastError)) =>
       /\ attempt = maxRetries + 1
       /\ Len(waits) = maxRetries
       /\ callResult = getAssistantMessageFromError(lastError)
  /\ \A i, j \in DOMAIN waits :
       (i < j /\ ~Overridden(waits[i]) /\ ~Overridden(waits[j])) =>
         waits[i].delayMs <= waits[j].delayMs
  /\ \A i \in DOMAIN waits :
       Overridden(waits[i]) =>
         waits[i].delayMs = parseInt(waits[i].retryAfter.text).value * 1000

\* C12 witness: two retryable failures without retry-after, then success on
\* the third attempt, after waits of 500 and 1000 ms.
C12_Witness ==
  /\ cpc = "post"
  /\ maxRetries = 2
  /\ attempt = 3
  /\ Len(waits) = 2
  /\ waits[1].delayMs = 500 /\ ~waits[1].retryAfter.set
  /\ waits[2].delayMs = 1000 /\ ~waits[2].retryAfter.set

\* ------------------------------------------ properties of the message layer
\* The list without its progress messages.
WithoutProgress(ms) == SelectSeq(ms, LAMBDA m : m.type # "progress")

\* i..j is a maximal run of adjacent tool-result user messages of ms.
MaximalResultRun(ms, i, j) ==
  /\ i <= j
  /\ \A k \in i..j : IsToolResultMessage(ms[k])
  /\ i = 1 \/ ~IsToolResultMessage(ms[i - 1])
  /\ j = Len(ms) \/ ~IsToolResultMessage(ms[j + 1])

\* No progress message and no two adjacent tool-result user messages.
WireNormal(ms) ==
  /\ \A k \in DOMAIN ms : ms[k].type # "progress"
  /\ \A k \in 1..(Len(ms) - 1) :
       ~(IsToolResultMessage(ms[k]) /\ IsToolResultMessage(ms[k + 1]))

\* C13: the output of normalizeMessagesForAPI has no progress message and no
\* two adjacent user messages that start with a tool-result block; every run of
\* adjacent tool-result user messages of the input (progress messages aside)
\* is one user message of the output, holding their blocks in input order, and
\* every other message is kept.
C13_WireNormalForm ==
  mpc = "api" =>
    LET F == WithoutProgress(msgIn) IN
    /\ WireNormal(msgOut)
    /\ \A i, j \in DOMAIN F :
         MaximalResultRun(F, i, j) =>
           \E k \in DOMAIN msgOut :
             /\ msgOut[k].type = "user"
             /\ msgOut[k].content = Flatten([x \in 1..(j - i + 1) |-> F[i + x - 1].content])
    /\ SelectSeq(msgOut, LAMBDA m : ~IsToolResultMessage(m))
         = SelectSeq(F, LAMBDA m : ~IsToolResultMessage(m))

\* C13 witness: two tool-result messages with a progress message between them
\* come out as one user message holding both blocks.
C13_Witness ==
  /\ mpc = "api"
  /\ Len(msgIn) = 3
  /\ IsToolResultMessage(msgIn[1])
  /\ msgIn[2].type = "progress"
  /\ IsToolResultMessage(msgIn[3])
  /\ Len(msgOut) = 1
  /\ Len(msgOut[1].content) = 2

\* C14: normalizeMessagesForAPI returns a list with no progress message and no
\* adjacent tool-result user messages unchanged, and applying it to its own
\* output changes nothing.
C14_WireNormalizationIdempotent ==
  /\ (mpc = "api" /\ WireNormal(msgIn)) => msgOut = msgIn
  /\ mpc = "api-twice" => msgOut = msgIn

\* C14 witness: a list in which two tool-result messages were merged is
\* normalised again and comes back the same.
C14_Witness ==
  /\ mpc = "api-twice"
  /\ \E k \in DOMAIN msgIn : IsToolResultMessage(msgIn[k]) /\ Len(msgIn[k].content) = 2
  /\ msgOut = msgIn

\* The message requests the tool use `id` in its only block.
IsToolUseOf(m, id) ==
  m.type = "assistant" /\ Len(m.content) = 1 /\ Prop(m.content[1], "id") = id

IsProgressOf(m, id) == m.type = "progress" /\ m.toolUseID = id

IsResultOf(m, id) == IsToolResultMessage(m) /\ m.content[1].tool_use_id = id

\* A display-normalised list as a session produces it: one block per message,
\* tool-use ids requested once, every progress message and tool result after
\* the request of its tool use, at most one result per tool use.
SessionList(ms) ==
  /\ \A k \in DOMAIN ms : (ms[k].type # "progress" /\ ms[k].isArray) => Len(ms[k].content) = 1
  /\ \A id \in ToolUseIds :
       /\ Cardinality({ k \in DOMAIN ms : IsToolUseOf(ms[k], id) }) <= 1
       /\ Cardinality({ k \in DOMAIN ms : IsResultOf(ms[k], id) }) <= 1
       /\ \A k \in DOMAIN ms :
            (IsProgressOf(ms[k], id) \/ IsResultOf(ms[k], id)) =>
              \E j \in 1..(k - 1) : IsToolUseOf(ms[j], id)

C16_AtMostTenInFlight ==
  (pc = "tools" /\ \A i \in DOMAIN toolUseMessages :
                     IsReadOnlyName(toolUseMessages[i].name)) =>
    /\ concurrent
    /\ Cardinality({ i \in DOMAIN tu : Running(i) }) <= 10

\* C16 witness: ten tool-uses of a read-only batch in flight while an eleventh
\* waits for a place.
C16_Witness ==
  /\ pc = "tools"
  /\ concurrent
  /\ Cardinality({ i \in DOMAIN tu : Running(i) }) = 10
  /\ \E i \in DOMAIN tu : tu[i].pc = "waiting"

\* ------------------------------------------- more properties of the shell check
\* C17: a command equal to an entry of the safe list is approved by the first
\* step of bashToolHasPermission, whatever the stored list holds; the check
\* never waits for the prefix classifier and no classifier outcome exists.
C17_SafeCommandApprovedAtOnce ==
  (command \in SAFE_COMMANDS /\ ppc # "start") =>
    /\ ppc = "done"
    /\ permissionResult = "approve"
    /\ prefixResult = NoOutcome

\* C17 witness: `git status` approved with an empty stored list.
C17_Witness ==
  /\ command = "git status"
  /\ allowedTools = <<>>
  /\ ppc = "done"
  /\ permissionResult = "approve"

\* ------------------------------------------- properties of the approval store
\* C18: approvals of the file-editing tools are session-scoped. A savePermission
\* call for FileEdit, FileWrite or NotebookEdit leaves the persisted list as it
\* was, and whenever hasPermissionsToUseTool asked such a tool and the tool
\* reported that it needs permission, the call ended in a denial, whatever the
\* persisted list holds (the tool's own name included).
C18_FileEditApprovalsSessionScoped ==
  /\ [][ (storeCall'.op = "savePermission" /\ storeCall'.tool \in FileEditTools)
           => allowedTools' = allowedTools ]_vars
  /\ [](( /\ storeCall.op = "hasPermissionsToUseTool"
          /\ storeCall.tool \in FileEditTools
          /\ storeCall.needsPermissions = "yes" )
        => storeCall.result = "deny")

\* A file-editing tool was approved in this session, its name is even in the
\* persisted list, and the next check of it is still denied.
C18_Witness ==
  /\ writeGranted
  /\ Includes(allowedTools, "FileEditTool")
  /\ storeCall.op = "hasPermissionsToUseTool"
  /\ storeCall.tool = "FileEditTool"
  /\ storeCall.needsPermissions = "yes"
  /\ storeCall.result = "deny"

\* The key the store is expected to hold after an approval was saved.
ExpectedKey(call) ==
  IF call.tool = BashToolName
  THEN IF call.prefix \in {null, ""} THEN ExactKey(call.command)
       ELSE PrefixKey(call.prefix)
  ELSE call.tool

\* C19: from an empty persisted list, after any sequence of savePermission
\* calls the list is sorted without a duplicate, every call keeps the keys that
\* were there, a saved shell approval is present as its prefix-scoped key (or
\* its exact-command key when no prefix came along), any other persisted
\* approval as the bare tool name, and no key of another form is in the list.
C19_StoreSortedAndGrowing ==
  /\ [](\A i, j \in DOMAIN allowedTools :
          i < j => Rank(allowedTools[i]) < Rank(allowedTools[j]))
  /\ [](\A i \in DOMAIN allowedTools :
          \/ allowedTools[i] \in OtherTools
          \/ \E c \in StoreCommands : allowedTools[i] = ExactKey(c)
          \/ \E pre \in StorePrefixes \ {null, ""} : allowedTools[i] = PrefixKey(pre))
  /\ []((storeCall.op = "savePermission" /\ storeCall.tool \notin FileEditTools)
          => Stored(ExpectedKey(storeCall)))
  /\ [][Range(allowedTools) \subseteq Range(allowedTools')]_vars

\* Three approvals of the three forms were saved, the last one sorting first.
C19_Witness ==
  /\ allowedTools = << "Bash(ls -l)", "Bash(rm:*)", "View" >>
  /\ storeCall.op = "savePermission"
  /\ storeCall.tool = BashToolName
  /\ storeCall.prefix = null

\* ---------------------------------------- properties of the display normalisation
\* The messages normalizeMessages made of the k-th message of its input.
Pieces(k) == SelectSeq(msgOut, LAMBDA m : m.uuid[1] = k)

\* The costs of the pieces added up in floating point, first to last.
RECURSIVE SumCosts(_)
SumCosts(ps) ==
  IF ps = <<>> THEN 0
  ELSE FloatAdd(SumCosts(SubSeq(ps, 1, Len(ps) - 1)), ps[Len(ps)].costUSD)

\* The assistant messages of the input that carry an array of content blocks.
BlockAssistants ==
  { k \in DOMAIN msgIn : msgIn[k].type = "assistant" /\ msgIn[k].isArray }

\* The k-th message was split into one single-block assistant message per block.
SplitPerBlock(k) ==
  /\ Len(Pieces(k)) = Len(msgIn[k].content)
  /\ \A i \in DOMAIN Pieces(k) :
       /\ Pieces(k)[i].type = "assistant"
       /\ Pieces(k)[i].content = <<msgIn[k].content[i]>>

C21_NoModelCallWhenCancelled ==
  [][aborted => pending' \subseteq pending]_vars

\* ------------------------------------------- properties of a single tool-use
\* C22: runToolUse never yields more than one tool-result message for a
\* tool-use id, and no message at all after that tool-result.
C22_AtMostOneTerminalResult ==
  \A i \in DOMAIN tu : tu[i].nres <= 1 /\ ~tu[i].late

\* The tool-result messages collected for tool-use i of the running batch.
ResultsOf(i) ==
  SelectSeq(toolResults, LAMBDA m : m.content[1].tool_use_id = toolUseMessages[i].id)

\* What the tool-result of a step that refused the tool-use holds: the schema
\* check, the tool's semantic validation, the permission check.
Refusals == {"InputValidationError", "ValidationError", "PermissionDenied"}

Refused(i) == \E k \in DOMAIN ResultsOf(i) : ResultsOf(i)[k].content[1].content \in Refusals

\* C23: tool.call is invoked only from the point behind the schema check and
\* a semantic validation that did not reject, on an approval of canUseTool or
\* on the judge's waiver; a tool-use refused at one of the three steps has
\* yielded that one error tool-result and its tool was not invoked.
C23_CallOnlyAfterThreeChecks ==
  /\ [](\A i \in DOMAIN tu :
          /\ tu[i].called =>
               /\ tu[i].perm \in {"approve", "waived"}
               /\ tu[i].perm = "waived" => shouldSkipPermissionCheck
               /\ ~Refused(i)
          /\ Refused(i) =>
               /\ ~tu[i].called
               /\ tu[i].pc = "done"
               /\ Len(ResultsOf(i)) = 1
               /\ ResultsOf(i)[1].content[1].is_error)
  /\ [][ (pc = "tools" /\ pc' = "tools") =>
           \A i \in DOMAIN tu :
             (~tu[i].called /\ tu'[i].called) =>
               \/ tu[i].pc = "validating" /\ shouldSkipPermissionCheck
               \/ tu[i].pc = "permission" ]_vars

\* One tool-use was refused by the permission check and never called, its
\* sibling was approved and called.
C23_Witness ==
  /\ pc = "tools"
  /\ Len(tu) = 2
  /\ ~tu[1].called
  /\ Len(ResultsOf(1)) = 1
  /\ ResultsOf(1)[1].content[1].content = "PermissionDenied"
  /\ tu[2].called
  /\ tu[2].perm = "approve"

\* ------------------------------------------- properties of a failing tool-use
UnknownTool(i) == ~HasTool(toolUseMessages[i].name)

\* The transcript holds a tool-result message with this content.
Submitted(ms, content) ==
  \E n \in DOMAIN ms : IsToolResultMessage(ms[n]) /\ ms[n].content[1].content = content

\* C24: a tool-use naming a tool that is not in the catalog never suspends and
\* ends with exactly one tool-result, is_error set, its tool never invoked.
\* The batch goes on: while a tool-use waits and none is running, one may
\* start; query recurses only when every tool-use of the turn has ended, and
\* every tool-result collected is in the transcript of the next turn.
C24_UnknownToolDoesNotAbortBatch ==
  /\ [](\A i \in DOMAIN tu :
          UnknownTool(i) =>
            /\ tu[i].pc \in {"waiting", "done"}
            /\ ~tu[i].called
            /\ tu[i].pc = "done" =>
                 /\ Len(ResultsOf(i)) = 1
                 /\ ResultsOf(i)[1].content[1].is_error
                 /\ ResultsOf(i)[1].content[1].content = "NoSuchTool")
  /\ []((/\ pc = "tools"
         /\ \E j \in DOMAIN tu : tu[j].pc = "waiting"
         /\ \A j \in DOMAIN tu : ~Active(j))
        => \E j \in DOMAIN tu : MayStart(j))
  /\ [][ depth' = depth + 1 =>
           /\ \A i \in DOMAIN tu : tu[i].pc = "done"
           /\ \A k \in DOMAIN toolResults :
                \E n \in DOMAIN messages' : messages'[n] = toolResults[k] ]_vars

\* The next turn's transcript holds the error result of the unknown tool and
\* the result of the sibling that ran after it.
C24_Witness ==
  /\ depth = 1
  /\ Submitted(messages, "NoSuchTool")
  /\ Submitted(messages, "Result")
  /\ messages[3].content[1].content = "NoSuchTool"

\* C25: when tool.call throws before a result event, at its first step or
\* after progress events, the tool-use has ended with exactly one tool-result,
\* is_error set; the step that reports it leaves the batch running and every
\* other tool-use as it was.
C25_ToolExceptionBecomesErrorResult ==
  /\ [](\A i \in DOMAIN tu :
          tu[i].threw =>
            /\ tu[i].pc = "done"
            /\ Len(ResultsOf(i)) = 1
            /\ ResultsOf(i)[1].content[1].is_error
            /\ ResultsOf(i)[1].content[1].content = "Exception")
  /\ [][ \A i \in DOMAIN tu \cap DOMAIN tu' :
           (~tu[i].threw /\ tu'[i].threw) =>
             /\ pc' = "tools"
             /\ \A j \in DOMAIN tu \ {i} : tu'[j] = tu[j]
             /\ SubSeq(toolResults', 1, Len(toolResults)) = toolResults ]_vars

\* The call of the first tool-use threw after a progress event; its sibling
\* is running.
C25_Witness ==
  /\ pc = "tools"
  /\ Len(tu) = 2
  /\ tu[1].threw
  /\ tu[1].prog
  /\ tu[2].pc = "calling"

\* C26: in a batch that runs concurrently, a step of one tool-use - a
\* validation error, a permission denial, an exception - leaves every other
\* tool-use of the batch as it was; a tool-use that waits can be started while
\* fewer than the ceiling are running; every tool-result yielded is collected,
\* and when query recurses every tool-use has ended and every collected
\* tool-result is in the transcript of the next turn.
C26_FailureLeavesSiblingsAlone ==
  /\ [][ (concurrent /\ pc = "tools" /\ pc' = "tools") =>
           \A i \in DOMAIN tu :
             tu'[i] # tu[i] => \A j \in DOMAIN tu \ {i} : tu'[j] = tu[j] ]_vars
  /\ []((/\ concurrent
         /\ pc = "tools"
         /\ \E j \in DOMAIN tu : tu[j].pc = "waiting"
         /\ Cardinality({j \in DOMAIN tu : Active(j)}) < MAX_TOOL_USE_CONCURRENCY)
        => \E j \in DOMAIN tu : MayStart(j))
  /\ [](concurrent => \A i \in DOMAIN tu : Len(ResultsOf(i)) = tu[i].nres)
  /\ [][ (concurrent /\ depth' = depth + 1) =>
           /\ \A i \in DOMAIN tu : tu[i].pc = "done"
           /\ \A k \in DOMAIN toolResults :
                \E n \in DOMAIN messages' : messages'[n] = toolResults[k] ]_vars

\* The next turn's transcript of an all-read-only turn holds the denial of one
\* tool-use and the result of its sibling.
C26_Witness ==
  /\ depth = 1
  /\ AllReadOnly(ToolUseBlocks(messages[2]))
  /\ Submitted(messages, "PermissionDenied")
  /\ Submitted(messages, "Result")

\* ------------------------------------------- properties of the permission step
\* canUseTool has been called for tool-use i: the call is awaited, or it
\* returned an approval.
Consulted(i) == tu[i].pc = "permission" \/ tu[i].perm = "approve"

\* C27 as stated: with dangerouslySkipPermissions set, or with the judge's
\* waiver for the turn, canUseTool is not consulted for any tool-use.
C27_CheckerNotConsulted ==
  (dangerouslySkipPermissions \/ shouldSkipPermissionCheck) =>
    \A i \in DOMAIN tu : ~Consulted(i)

\* C27, amended: with the judge's waiver for the turn canUseTool is not
\* called, and a tool-use whose validation passed goes straight to tool.call.
\* With dangerouslySkipPermissions set and no waiver, canUseTool is called for
\* every tool-use whose validation passed and resolves to an approval: no
\* tool-use is denied, and each goes to tool.call when canUseTool resolves.
C27_WaivedOrApprovedAtOnce ==
  /\ [](shouldSkipPermissionCheck =>
          \A i \in DOMAIN tu :
            /\ ~Consulted(i)
            /\ tu[i].called => tu[i].perm = "waived")
  /\ []((dangerouslySkipPermissions /\ ~shouldSkipPermissionCheck) =>
          \A i \in DOMAIN tu :
            /\ tu[i].called => tu[i].perm = "approve"
            /\ ~Refused(i) \/ ResultsOf(i)[1].content[1].content # "PermissionDenied")
  /\ [][ (pc = "tools" /\ pc' = "tools") =>
           \A i \in DOMAIN tu :
             /\ (tu[i].pc = "validating" /\ tu'[i].pc \notin {"validating", "done"}) =>
                  tu'[i].pc = IF shouldSkipPermissionCheck THEN "calling"
                                                           ELSE "permission"
             /\ (dangerouslySkipPermissions /\ tu[i].pc = "permission"
                                            /\ tu'[i].pc # "permission") =>
                  tu'[i].pc = "calling" ]_vars

\* In a session with the flag set and no waiver, canUseTool was called for a
\* tool-use and approved it.
C27_Witness ==
  /\ dangerouslySkipPermissions
  /\ ~shouldSkipPermissionCheck
  /\ pc = "tools"
  /\ tu[1].called
  /\ tu[1].perm = "approve"

\* The classifier flags the command under check as injection.
InjectionFlagged ==
  /\ prefixResult.kind \in {"unasked", "result"}
  /\ prefixResult.commandInjectionDetected

\* hasPermissionsToUseTool returned an approval for the shell command, with
\* permissions not skipped.
ShellApproved ==
  /\ ~dangerouslySkipPermissions
  /\ ppc = "done"
  /\ permissionResult = "approve"

\* C28 as stated: a shell command the classifier flags as injection is approved
\* through hasPermissionsToUseTool only if it is in the safe list or has an
\* exact stored entry.
C28_FlaggedNeedsExactEntry ==
  (InjectionFlagged /\ ShellApproved) =>
    bashToolCommandHasExactMatchPermission(command, allowedTools)

\* C28, amended: a shell command the classifier flags as injection is approved
\* through hasPermissionsToUseTool only if it is in the safe list, has an exact
\* stored entry, or the list holds the bare tool name; with the bare tool name
\* in the list every command is approved, and the classifier is not called.
C28_FlaggedNeedsExactOrBlanketEntry ==
  /\ (InjectionFlagged /\ ShellApproved) =>
       \/ bashToolCommandHasExactMatchPermission(command, allowedTools)
       \/ Stored(BashToolName)
  /\ (~dangerouslySkipPermissions /\ Stored(BashToolName)) =>
       /\ ppc \in {"entry", "done"}
       /\ prefixResult.kind = "unasked"
       /\ ppc = "done" => permissionResult \in {"approve", "AbortError"}

\* A flagged command with no exact entry, approved through the bare tool name.
C28_Witness ==
  /\ InjectionFlagged
  /\ ShellApproved
  /\ Stored(BashToolName)
  /\ ~bashToolCommandHasExactMatchPermission(command, allowedTools)
  /\ Len(parts) > 1

\* C29: when the classifier call has returned (a result, flagged or not, or
\* null) and the signal is set by then, bashToolHasPermission raises AbortError:
\* it returns neither an approval nor a denial.
C29_AbortedCheckRaises ==
  (/\ ppc = "done"
   /\ prefixResult.kind \in {"result", "null"}
   /\ aborted) =>
    permissionResult = "AbortError"

\* The signal was set during the classifier call, which returned a result that
\* the stored prefix entry would have approved.
C29_Witness ==
  /\ ppc = "done"
  /\ aborted
  /\ prefixResult.kind = "result"
  /\ ~prefixResult.commandInjectionDetected
  /\ BashDecision(command, subCommands, prefixResult, allowedTools) = "approve"
  /\ permissionResult = "AbortError"

\* ------------------------------------------------- properties of shouldRetry
\* withRetry asked shouldRetry about the failure of this step: the attempt
\* failed with an APIError while retries were left.
AskedShouldRetry ==
  /\ cpc = "attempt"
  /\ cpc' \in {"sleeping", "done"}
  /\ lastError'.api
  /\ attempt <= maxRetries

\* The classification by the retry-hint header, then the kind of failure and
\* the status.
RetryableByHeaderAndStatus(error) ==
  IF error.xShouldRetry = "true" THEN TRUE
  ELSE IF error.xShouldRetry = "false" THEN FALSE
  ELSE \/ error.connection
       \/ error.status \in {408, 409, 429}
       \/ error.status >= 500

\* C30 as stated: a failure is retried exactly when its retry-hint header is
\* 'true', or, the header not being 'false', it is a connection failure, has
\* status 408, 409 or 429, or a status >= 500.
C30_RetryableByHeaderAndStatus ==
  [][AskedShouldRetry =>
       ((cpc' = "sleeping") <=> RetryableByHeaderAndStatus(lastError'))]_vars

\* C30, amended: a failure whose message holds "type":"overloaded_error" is
\* retried exactly when USER_TYPE is SWE_BENCH, whatever its header and status;
\* any other failure is retried exactly when its retry-hint header is 'true',
\* or, the header not being 'false', it is a connection failure, has status
\* 408, 409 or 429, or a status >= 500.
C30_OverloadedDecidedFirst ==
  [][AskedShouldRetry =>
       ((cpc' = "sleeping") <=>
          IF lastError'.overloaded THEN userType = "SWE_BENCH"
          ELSE RetryableByHeaderAndStatus(lastError'))]_vars

\* An overloaded error with a 5xx status, not retried although retries were
\* left.
C30_Witness ==
  /\ cpc = "done"
  /\ attempt = 1
  /\ maxRetries >= 1
  /\ userType = "external"
  /\ lastError.api
  /\ lastError.overloaded
  /\ lastError.status >= 500
  /\ lastError.xShouldRetry = "none"

\* ------------------------------------------------ properties of the backoff
\* The retry-after header is present and parseInt gives a number for it.
ParsesAsInteger(header) ==
  header.set /\ header.text # <<>> /\ ~parseInt(header.text).nan

\* The backoff that starts at the base delay and doubles with each attempt, up
\* to the ceiling.
RECURSIVE DoublingBackoff(_)
DoublingBackoff(n) ==
  IF n = 1 THEN BASE_DELAY_MS
  ELSE Min(2 * DoublingBackoff(n - 1), MAX_DELAY_MS)

\* The wait after failed attempt n is the retry-after seconds times 1000 when
\* the header parses as an integer, else the doubling backoff.
WaitAsComputed ==
  \A i \in DOMAIN waits :
    waits[i].delayMs =
      IF ParsesAsInteger(waits[i].retryAfter)
      THEN parseInt(waits[i].retryAfter.text).value * 1000
      ELSE DoublingBackoff(attempt - Len(waits) + i)

\* C31 as stated: the wait after failed attempt n is retry-after x 1000 ms when
\* the header parses as an integer, else 500 x 2^(n-1) ms doubling up to
\* 32000 ms, and no wait exceeds the ceiling.
C31_NoWaitAboveCeiling ==
  (cpc = "sleeping") =>
    /\ WaitAsComputed
    /\ \A i \in DOMAIN waits : waits[i].delayMs <= MAX_DELAY_MS

\* C31, amended: the wait after failed attempt n is retry-after x 1000 ms when
\* the header parses as an integer, and that wait is not capped; otherwise it
\* is 500 ms doubled per attempt and never above 32000 ms.
C31_ComputedWaitBelowCeiling ==
  (cpc = "sleeping") =>
    /\ WaitAsComputed
    /\ \A i \in DOMAIN waits :
         ~ParsesAsInteger(waits[i].retryAfter) => waits[i].delayMs <= MAX_DELAY_MS

\* A failure of the eighth attempt without retry-after: the doubled delay
\* would be 64000 ms, the wait is 32000 ms.
C31_Witness ==
  /\ cpc = "sleeping"
  /\ attempt = 8
  /\ Len(waits) = 1
  /\ ~waits[1].retryAfter.set
  /\ waits[1].delayMs = MAX_DELAY_MS

\* C32: normalizeMessages maps every message whose content is a list of N
\* blocks, user or assistant, to N messages that each carry exactly one of the
\* blocks, in block order; progress messages and messages with string content
\* pass through unchanged.
C32_OneMessagePerBlock ==
  mpc = "display" =>
    \A k \in DOMAIN msgIn :
      IF msgIn[k].type = "progress" \/ ~msgIn[k].isArray
      THEN Pieces(k) = <<msgIn[k]>>
      ELSE /\ Len(Pieces(k)) = Len(msgIn[k].content)
           /\ \A i \in DOMAIN Pieces(k) :
                /\ Pieces(k)[i].type = msgIn[k].type
                /\ Pieces(k)[i].content = <<msgIn[k].content[i]>>

\* ------------------------------------------------- properties of the reordering
\* The places of the progress messages of a tool use in a list.
ProgressPlaces(ms, id) == { k \in DOMAIN ms : IsProgressOf(ms[k], id) }

\* The greatest element of a non-empty set of numbers.
Greatest(S) == CHOOSE k \in S : \A j \in S : j <= k

\* C33: the output of reorderMessages holds at most one progress message per
\* tool-use id, the last one of the input; a progress message that follows one
\* of the same id takes the place of that one instead of being added.
C33_LastProgressInPlace ==
  mpc = "reordered" =>
    /\ \A id \in ToolUseIds :
         LET ins == ProgressPlaces(msgIn, id)
             outs == ProgressPlaces(msgOut, id)
         IN  /\ Cardinality(outs) <= 1
             /\ ins # {} =>
                  /\ outs # {}
                  /\ \A k \in outs : msgOut[k] = msgIn[Greatest(ins)]
    /\ (msgIn # <<>> /\ Last(msgIn).type = "progress") =>
         LET before == reorderMessages(SubSeq(msgIn, 1, Len(msgIn) - 1))
             place == FindProgress(before, Last(msgIn).toolUseID)
         IN  place # 0 => msgOut = [before EXCEPT ![place] = Last(msgIn)]

\* A tool use and two progress messages of it in the input, the second the
\* last message: the output holds the second, where the first stood.
C33_Witness ==
  /\ mpc = "reordered"
  /\ Len(msgIn) >= 3
  /\ Last(msgIn).type = "progress"
  /\ Cardinality(ProgressPlaces(msgIn, Last(msgIn).toolUseID)) = 2
  /\ Len(msgOut) = Len(msgIn) - 1
  /\ IsToolUseOf(msgOut[1], Last(msgIn).toolUseID)
  /\ msgOut[2] = Last(msgIn)

\* ------------------------------------------------ properties of the id sets
\* The places of the tool-use messages and of the tool results of an id.
ToolUsePlaces(ms, id) == { k \in DOMAIN ms : IsToolUseOf(ms[k], id) }

ResultPlaces(ms, id) == { k \in DOMAIN ms : IsResultOf(ms[k], id) }

\* The ids of the tool-use messages of a list.
IdsOfToolUses(ms) == { ms[k].content[1].id : k \in { j \in DOMAIN ms : IsToolUseMessage(ms[j]) } }

\* The tool-use ids of a list that have no tool-result message.
WithoutResult(ms) ==
  { id \in IdsOfToolUses(ms) : ResultPlaces(ms, id) = {} }

\* The id without result whose tool-use message comes first in the list.
IsEarliestWithoutResult(ms, id) ==
  /\ id \in WithoutResult(ms)
  /\ \E k \in ToolUsePlaces(ms, id) :
       \A other \in WithoutResult(ms) : \A j \in ToolUsePlaces(ms, other) : k <= j

\* C34: on a display-normalised list the unresolved ids are the tool-use ids
\* without a tool-result message; the in-progress ids are the unresolved ids
\* that are the earliest unresolved one or have a progress message, a subset of
\* the unresolved; the errored ids are the tool-use ids whose result has
\* is_error set, disjoint from the unresolved.
C34_IdSetsAsDefined ==
  mpc = "ids" =>
    /\ msgOut.unresolved = WithoutResult(msgIn)
    /\ msgOut.inProgress =
         { id \in WithoutResult(msgIn) :
             IsEarliestWithoutResult(msgIn, id) \/ ProgressPlaces(msgIn, id) # {} }
    /\ msgOut.inProgress \subseteq msgOut.unresolved
    /\ \A id \in ToolUseIds \cup IdsOfToolUses(msgIn) :
         Cardinality(ResultPlaces(msgIn, id)) <= 1 =>
           (id \in msgOut.errored <=>
              /\ ToolUsePlaces(msgIn, id) # {}
              /\ \E k \in ResultPlaces(msgIn, id) : msgIn[k].content[1].is_error)
    /\ msgOut.errored \cap msgOut.unresolved = {}

\* Two tool uses: the first failed, the second has a progress message and no
\* result yet.
C34_Witness ==
  /\ mpc = "ids"
  /\ msgOut.errored = {<<1>>}
  /\ msgOut.unresolved = {<<2>>}
  /\ msgOut.inProgress = {<<2>>}
  /\ ProgressPlaces(msgIn, <<2>>) # {}

\* --------------------------------------------- properties of the cost tracker
\* C35: the running cost and API-duration totals never decrease; a model call
\* that completes adds its cost and its duration, once: the totals change in
\* no other step; a call that resolves to an API-error message adds nothing.
C35_TotalsOnlyGrow ==
  [][ /\ costSTATE'.totalCost >= costSTATE.totalCost
      /\ costSTATE'.totalAPIDuration >= costSTATE.totalAPIDuration
      /\ costSTATE' # costSTATE => (cpc = "post" /\ cpc' = "done")
      /\ (cpc = "post" /\ cpc' = "done" /\ callResult'.kind = "message") =>
           /\ callResult'.costUSD >= 0
           /\ costSTATE'.totalCost = FloatAdd(costSTATE.totalCost, callResult'.costUSD)
           /\ \E d \in Durations :
                costSTATE'.totalAPIDuration = costSTATE.totalAPIDuration + d
      /\ (cpc = "attempt" /\ cpc' = "done" /\ callResult'.kind = "message"
            /\ callResult'.isApiErrorMessage) =>
           costSTATE' = costSTATE ]_vars

\* After several calls, one of them failed, the totals hold cost and duration
\* of the successful ones.
C35_Witness ==
  /\ cpc = "done"
  /\ callResult.kind = "message"
  /\ callResult.isApiErrorMessage
  /\ costSTATE.totalCost = 2 * FloatOne
  /\ costSTATE.totalAPIDuration = 7



\* ------------------------------------------- properties of the double press
\* The press at place i of the trace came within the window of the press
\* before it, and that press was answered with onFirstPress.
InWindowOfFirstPress(i) ==
  /\ i > 1
  /\ presses[i - 1].handled = "onFirstPress"
  /\ presses[i].at - presses[i - 1].at <= DOUBLE_PRESS_TIMEOUT_MS

DoubleExactlyInWindow ==
  \A i \in 1..Len(presses) :
    presses[i].handled = "onDoublePress" <=> InWindowOfFirstPress(i)

NeverTwoDoublesInARow ==
  \A i \in 2..Len(presses) :
    ~(presses[i - 1].handled = "onDoublePress" /\ presses[i].handled = "onDoublePress")

\* Three presses within one window are answered first, double, first.
RapidTriple ==
  \A i \in 3..Len(presses) :
    (/\ presses[i].at - presses[i - 2].at <= DOUBLE_PRESS_TIMEOUT_MS
     /\ presses[i - 2].handled = "onFirstPress")
      => /\ presses[i - 1].handled = "onDoublePress"
         /\ presses[i].handled = "onFirstPress"

\* pending goes from true to false in a double press or in the callback of a
\* timer that is due, and both leave it false.
PendingClearedByDoubleOrExpiry ==
  LET doublePress == /\ Len(presses') = Len(presses) + 1
                     /\ presses'[Len(presses')].handled = "onDoublePress"
      expiry == /\ presses' = presses
                /\ \E t \in timers : t \notin timers' /\ now >= t.due
  IN  /\ (pendingPress /\ ~pendingPress') => (doublePress \/ expiry)
      /\ (doublePress \/ expiry) => ~pendingPress'

\* C36: onDoublePress is called exactly for a press that comes at most 2000 ms
\* after a press answered with onFirstPress; three rapid presses are answered
\* first, double, first; no two presses in a row are answered with
\* onDoublePress; and pending is set to false by a double press and by the
\* expiry of a 2000 ms timer, and by nothing else.
C36_DoubleExactlyInWindowOfFirst ==
  /\ [](DoubleExactlyInWindow /\ NeverTwoDoublesInARow /\ RapidTriple)
  /\ [][PendingClearedByDoubleOrExpiry]_vars

\* Three presses at one reading of the clock, then a press after the timer of
\* the third has run.
C36_Witness ==
  /\ Len(presses) = 4
  /\ presses[1].at = presses[3].at
  /\ presses[1].handled = "onFirstPress"
  /\ presses[2].handled = "onDoublePress"
  /\ presses[3].handled = "onFirstPress"
  /\ presses[4].handled = "onDoublePress"
  /\ presses[4].at - presses[3].at = DOUBLE_PRESS_TIMEOUT_MS
  /\ ~pendingPress
  /\ timers = {}


\* ------------------------------------------- properties of the prompt history
NoEqualNeighbours(xs) == \A i \in 1..(Len(xs) - 1) : xs[i] # xs[i + 1]

LastHistoryCall == historyCalls[Len(historyCalls)]

\* C37: after every addToHistory call on a stored history of at most 100
\* entries the stored history has at most 100 entries and starts with the
\* command of the call; a command equal to the first entry leaves the history
\* as it was; every other command is put before the old entries, of which the
\* first 99 stay; and no call makes two neighbours equal.
C37_BoundedNewestFirstNoRepeat ==
  /\ Len(history) <= MAX_HISTORY_ITEMS
  /\ historyCalls # <<>> =>
       LET cmd == LastHistoryCall.command
           before == LastHistoryCall.before
       IN  /\ history[1] = cmd
           /\ (before # <<>> /\ before[1] = cmd) => history = before
           /\ ~(before # <<>> /\ before[1] = cmd) =>
                /\ Len(history) = (IF Len(before) < MAX_HISTORY_ITEMS
                                     THEN Len(before) + 1 ELSE MAX_HISTORY_ITEMS)
                /\ \A i \in 2..Len(history) : history[i] = before[i - 1]
           /\ NoEqualNeighbours(before) => NoEqualNeighbours(history)

\* A full history took a new command and lost its oldest entry, and the same
\* command given again changed nothing.
C37_Witness ==
  /\ Len(historyCalls) = 3
  /\ Len(historyCalls[1].before) = MAX_HISTORY_ITEMS
  /\ historyCalls[1].command # historyCalls[1].before[1]
  /\ historyCalls[2].command = historyCalls[1].command
  /\ historyCalls[2].before = historyCalls[3].before
  /\ historyCalls[3].command # historyCalls[2].command
  /\ Len(history) = MAX_HISTORY_ITEMS
  /\ history[2] = historyCalls[1].command
  /\ history[3] = historyCalls[1].before[1]


\* ------------------------------------- more properties of the reordering
\* How often a message object stands in a list.
Occurrences(ms, m) == Cardinality({ k \in DOMAIN ms : ms[k] = m })

\* A message that is neither a progress message nor a tool result.
IsPlainMessage(m) == m.type # "progress" /\ ~IsToolResultMessage(m)

\* C38: reorderMessages keeps every user and assistant message of its input,
\* a tool result without its tool-use message included, as often as the input
\* holds it, and the messages that are neither tool results nor progress
\* messages stay in the order of the input.
C38_NoMessageLost ==
  mpc = "reordered" =>
    /\ \A k \in DOMAIN msgIn :
         msgIn[k].type \in {"user", "assistant"} =>
           Occurrences(msgOut, msgIn[k]) = Occurrences(msgIn, msgIn[k])
    /\ SelectSeq(msgOut, IsPlainMessage) = SelectSeq(msgIn, IsPlainMessage)


\* ------------------------------------------- properties of the cancellation
\* Tool-use i of the running batch is handed to tool.call in this step.
CallStarts(i) ==
  /\ pc = "tools" /\ pc' = "tools"
  /\ i \in DOMAIN tu'
  /\ ~tu[i].called
  /\ tu'[i].called

\* C39: once the cancellation signal is set, no step of the query starts the
\* call operation of a tool, whatever the tool-use was waiting for when the
\* signal was set.
C39_NoCallAfterCancel ==
  [][aborted => \A i \in DOMAIN tu : ~CallStarts(i)]_vars


\* ------------------------------------------- properties of the key rotation
\* C40: a getActiveApiKey call returns a configured key that is not marked
\* failed whenever there is one, and undefined only when there is none, with
\* and without round-robin.
C40_ReturnsUnfailedKeyWhenOneExists ==
  keyCall.op = "get" =>
    LET live == Range(apiKeys) \ Range(failedApiKeys)
    IN  IF live # {}
          THEN keyCall.result.kind = "key" /\ keyCall.result.key \in live
          ELSE keyCall.result = NoKey

====
